---- MODULE Spec2Model ----
(***************************************************************************)
(* Presence pipeline of spotify-graph: the SQS-driven Presence Fetcher     *)
(* (src/presence/fetch_presence.py) with the Spotify client it calls       *)
(* (src/common/spotify_client.py), the Users and Presence tables           *)
(* (src/common/dynamodb_utils.py) and the work queue that delivers         *)
(* batches of poll requests to concurrent fetcher invocations.             *)
(***************************************************************************)
EXTENDS Integers, Sequences, FiniteSets, TLC

\* ------------------------------------------------------------------ bounds
MaxBatch   == 2      \* messages per fetcher invocation (event['Records'])
MaxInvocations == 2  \* fetcher invocations explored
MaxTicks   == 1      \* clock advances explored
MaxDays    == 1      \* whole days that go by without a write
MaxChanges == 1      \* presence writes that the readers of the table follow
MaxFailures == 1     \* failed calls (table reads, sends) within one broadcast
MaxInvited == 2      \* length of the memberIds list of a create-queue request
MaxTracks  == 2      \* tracks in the list of one queue
StartTime  == 1000   \* value of time.time() in the initial state

\* ------------------------------------------------------- program constants
RefreshMargin    == 300      \* fetch_presence.py:66
DefaultExpiresIn == 3600     \* fetch_presence.py:181
PresenceTtl      == 86400    \* fetch_presence.py:209  (24 * 60 * 60)

Users   == {"u1", "u2", "u3"}
Msgs    == {"m1", "m2"}
Workers == {"w1"}
Tracks  == {"t1"}

\* the WorkItem carried by each queue message (userId; spotifyId is SpotifyId(userId))
msgUser == [m \in Msgs |-> IF m = "m1" THEN "u1" ELSE "u2"]
SpotifyId(u) == <<"sp", u>>

\* HTTP outcomes of GET /me/player/currently-playing as _make_request sees them
\* "playing": 200 with is_playing; "paused": 200 without; "204"; "429"; "401";
\* "500": any other status; "neterr": RequestException (status_code = None)
CPResponses      == {"playing", "paused", "204", "429", "401", "500", "neterr"}
\* outcomes of POST /api/token (grant_type=refresh_token)
RefreshResponses == {"ok", "429", "401", "400", "neterr"}

VARIABLES
    now,        \* time.time()
    ticks,      \* clock advances so far
    users,      \* Users table: userId -> row
    presence,   \* Presence table: userId -> row
    issued,     \* userId -> access tokens the provider has issued to the user
    qstate,     \* work queue: message -> "visible" | "inflight" | "deleted"
    rcv,        \* work queue: message -> receive count
    invocations,\* fetcher invocations started so far
    pc,         \* worker -> position in handler
    batch,      \* worker -> event['Records'] (sequence of messages)
    idx,        \* worker -> position of `record` in the batch
    loc,        \* worker -> handler locals of the current record
    ev,         \* worker -> calls made so far for the current record
    hist,       \* worker -> finished records of the current invocation
    rateLimited,\* messages some delivery left unacknowledged after a 429 on the fetch
    \* two deliveries for one user, inside lines 71-81 and save_presence
    playback,   \* what the provider reports for the user: a track or "none"
    rpc,        \* delivery -> position: "fetch" | "stamp" | "put" | "done"
    rdata,      \* delivery -> presence_data it fetched
    rts,        \* delivery -> `timestamp` of save_presence (line 208)
    fetched,    \* the deliveries in the order of their provider calls
    writes,     \* the rows put_item wrote for the user, in the order of the writes
    \* the social side: friend table, visibility, connection registry, stream
    friends,    \* Friends table: set of <<userId, friendId>> rows
    visibility, \* Users table: userId -> visibility attribute ("unset" when absent)
    lastLogin,  \* Users table: userId -> lastLogin attribute, a Number (0 when absent)
    conns,      \* Connections table: connectionId -> userId, or "none" when absent
    stream,     \* change events of the Presence table not yet handled
    bc,         \* what the broadcast handler did with the last stream record
    view,       \* the nodes the last presence-network request returned
    \* the HTTP handlers and the scheduled discovery
    queues,     \* Shared Queues table: queueId -> row
    members,    \* Queue Members table: set of rows, one per (queueId, userId)
    requests,   \* Friend Requests table: requestId -> row
    disc,       \* what the last run of the discovery handler did
    calls,      \* HTTP handler invocations in flight: call -> position and locals
    api         \* the response of the last HTTP handler that returned

fetchVars == <<issued, qstate, rcv, invocations, pc, batch, idx, loc, ev, hist, rateLimited>>
raceVars  == <<playback, rpc, rdata, rts, fetched, writes>>
netVars   == <<friends, visibility, lastLogin, conns, stream, bc, view>>
appVars   == <<queues, members, requests, disc, calls, api>>

vars == <<now, ticks, users, presence, fetchVars, raceVars, netVars, appVars>>

NoRow  == [exists |-> FALSE, accessToken |-> 0, refreshToken |-> 0, tokenExpiresAt |-> 0]
NoPres == [exists |-> FALSE, spotifyId |-> <<>>, isPlaying |-> FALSE, track |-> "none",
           updatedAt |-> 0, ttl |-> 0]
\* the rows of a user, as a record starts to be processed
Snapshot(u) == [user |-> users[u], presence |-> presence[u]]

\* handler locals; `before` is not a local of the code: it remembers the rows
\* the record found, so that "unchanged" can be stated
NoLoc  == [access_token |-> 0, refresh_token |-> 0, token_expires_at |-> 0, current_time |-> 0,
           presence_data |-> "none", before |-> [user |-> NoRow, presence |-> NoPres]]

Running(w) == pc[w] \notin {"idle", "returned", "failed"}

Event(op, resp, tok) == [op |-> op, resp |-> resp, tok |-> tok]

\* rows a user can have when the fetcher meets it: no row, a row without an
\* access token, a row without a refresh token, and a token that is one
\* second short of the refresh margin (it needs a refresh once the clock moves)
ValidAt == StartTime + RefreshMargin + 1

Row(a, r, e) == [exists |-> TRUE, accessToken |-> a, refreshToken |-> r, tokenExpiresAt |-> e]

InitialRows(u) ==
    IF u = "u1"
    THEN {NoRow, Row(0, 1, 0), Row(1, 0, 0), Row(1, 1, ValidAt)}
    ELSE {Row(1, 1, ValidAt)}

\* the two deliveries of one work item that the race is about, and their user
Deliveries == {"d1", "d2"}
RaceUser   == "u1"

\* no delivery is racing
RaceIdle ==
    /\ playback = "none"
    /\ rpc = [d \in Deliveries |-> "done"]
    /\ rdata = [d \in Deliveries |-> "none"]
    /\ rts = [d \in Deliveries |-> 0]
    /\ fetched = <<>>
    /\ writes = <<>>

Conns == {"c1", "c2", "c3"}

\* a record of the Presence table's stream
StreamRecord(name, u, image) == [eventName |-> name, userId |-> u, image |-> image]

\* what the broadcast handler did with a stream record; `before` is the
\* Connections table as the handler found it, `fault` the table whose read
\* failed (if any), `encoded` whether line 240 produced the payload
NoBroadcast ==
    [handled |-> FALSE, record |-> StreamRecord("none", "none", NoPres), outcome |-> "none",
     fault |-> "none", visibility |-> "none", audience |-> {}, encoded |-> FALSE,
     sends |-> [u \in Users |-> <<>>], count |-> 0,
     before |-> [c \in Conns |-> "none"]]
\* a node of the network response; `row` is not in the response: it is the
\* Presence row the node was built from
NoNode == [listed |-> FALSE, visibility |-> "none", isPlaying |-> FALSE, track |-> "none",
           updatedAt |-> 0, row |-> NoPres]
NoView == [served |-> FALSE, viewer |-> "none", at |-> 0, nodes |-> [u \in Users |-> NoNode]]

\* empty tables, nothing on the stream
NetIdle ==
    /\ friends = {}
    /\ visibility = [u \in Users |-> "friends"]
    /\ lastLogin = [u \in Users |-> StartTime]
    /\ conns = [c \in Conns |-> "none"]
    /\ stream = <<>>
    /\ bc = NoBroadcast
    /\ view = NoView

Queues == {"q1", "q2"}
Reqs   == {"r1", "r2"}
ApiCalls == {"a1", "a2"}

\* absent rows of the Shared Queues and Friend Requests tables
\* (`used`: uuid4 has given the id out, so no later queue gets it)
NoQueue   == [exists |-> FALSE, ownerId |-> "none", isPublic |-> FALSE, tracks |-> <<>>,
              used |-> FALSE]
\* create_queue.py:117-127  the row of a new queue
Queue(owner, isPublic) ==
    [exists |-> TRUE, ownerId |-> owner, isPublic |-> isPublic, tracks |-> <<>>, used |-> TRUE]
\* create_queue.py:150-155, join_queue.py:78-83  a row of the Queue Members table
MemberRow(q, u, role) == [queueId |-> q, userId |-> u, role |-> role]
NoRequest == [exists |-> FALSE, fromUserId |-> "none", toUserId |-> "none", status |-> "none"]

\* the discovery handler has not run
NoDiscovery ==
    [ran |-> FALSE, raised |-> FALSE, fault |-> "none", kind |-> "none", recent |-> {},
     candidates |-> {}, active |-> <<>>, fails |-> {}, sent |-> <<>>, queued |-> 0, failed |-> 0]

\* no invocation of an HTTP handler; `found` is what its check read
NoCall == [op |-> "none", pc |-> "done", user |-> "none", target |-> "none", found |-> FALSE,
           name |-> 0, memberIds |-> <<>>, invited |-> {}, track |-> "none", tracks |-> <<>>]
\* no response yet; `visibility` is the field of that name in the body
NoData == [kind |-> "none"]
NoResponse == [op |-> "none", user |-> "none", request |-> "none", status |-> 0,
               visibility |-> "none", before |-> [u \in Users |-> "none"], data |-> NoData]

\* no queue, no friend request, no handler running
AppIdle ==
    /\ queues = [q \in Queues |-> NoQueue]
    /\ members = {}
    /\ requests = [r \in Reqs |-> NoRequest]
    /\ disc = NoDiscovery
    /\ calls = [a \in ApiCalls |-> NoCall]
    /\ api = NoResponse

Init ==
    /\ now = StartTime
    /\ ticks = 0
    /\ users \in {f \in [Users -> UNION {InitialRows(u) : u \in Users}] :
                    \A u \in Users : f[u] \in InitialRows(u)}
    /\ presence = [u \in Users |-> NoPres]
    /\ issued = [u \in Users |-> 1]
    /\ qstate = [m \in Msgs |-> "visible"]
    /\ rcv = [m \in Msgs |-> 0]
    /\ invocations = 0
    /\ pc = [w \in Workers |-> "idle"]
    /\ batch = [w \in Workers |-> <<>>]
    /\ idx = [w \in Workers |-> 0]
    /\ loc = [w \in Workers |-> NoLoc]
    /\ ev = [w \in Workers |-> <<>>]
    /\ hist = [w \in Workers |-> <<>>]
    /\ rateLimited = {}
    /\ RaceIdle
    /\ NetIdle
    /\ AppIdle

\* ----------------------------------------------------------- pure helpers

Range(f) == {f[i] : i \in DOMAIN f}

\* the batches the queue can hand to one invocation: up to MaxBatch distinct
\* receivable messages, in any order
Batches(S) ==
    {b \in UNION {[1..k -> S] : k \in 1..MaxBatch} :
        \A i, j \in DOMAIN b : i # j => b[i] # b[j]}

\* mutant: the refresh starts only once the margin has been passed
NeedsRefreshStrict(t, expiresAt) == t > expiresAt - RefreshMargin

\* fetch_presence.py:66  current_time >= token_expires_at - 300
NeedsRefresh(t, expiresAt) == t >= expiresAt - RefreshMargin

\* spotify_client.py:238-270  _make_request: status -> JSON body or SpotifyAPIError
MakeRequest(resp) ==
    IF resp = "429" THEN [ok |-> FALSE, status |-> "429", body |-> "none"]
    ELSE IF resp = "401" THEN [ok |-> FALSE, status |-> "401", body |-> "none"]
    ELSE IF resp = "204" THEN [ok |-> FALSE, status |-> "204", body |-> "none"]
    ELSE IF resp \notin {"playing", "paused"}
         THEN [ok |-> FALSE, status |-> IF resp = "neterr" THEN "none" ELSE resp, body |-> "none"]
    ELSE [ok |-> TRUE, status |-> "200", body |-> resp]

\* spotify_client.py:151-167  get_currently_playing: 204 is "nothing playing"
GetCurrentlyPlaying(resp) ==
    LET r == MakeRequest(resp) IN
    IF ~r.ok /\ r.status = "204" THEN [ok |-> TRUE, status |-> "204", body |-> "none"]
    ELSE r

\* fetch_presence.py:120-160  fetch_spotify_presence: presence data, None, or the error
FetchSpotifyPresence(resp, track) ==
    LET r == GetCurrentlyPlaying(resp) IN
    IF ~r.ok THEN [ok |-> FALSE, status |-> r.status, data |-> "none"]
    ELSE IF r.body = "playing" THEN [ok |-> TRUE, status |-> r.status, data |-> track]
    ELSE [ok |-> TRUE, status |-> r.status, data |-> "none"]

\* spotify_client.py:104-137  refresh_access_token: token response or SpotifyAPIError
RefreshAccessToken(resp) ==
    IF resp = "ok" THEN [ok |-> TRUE, status |-> "200"]
    ELSE [ok |-> FALSE, status |-> IF resp = "neterr" THEN "none" ELSE resp]

\* mutant: a rate-limited response is logged like any other API error
OnStatusSwallow(status) ==
    IF status = "401" THEN "refresh"
    ELSE "drop"

\* fetch_presence.py:83-106  what the except SpotifyAPIError clause does with a status
OnStatus(status) ==
    IF status = "429" THEN "raise"
    ELSE IF status = "401" THEN "refresh"
    ELSE "drop"

\* mutant: the item says "playing" whatever the provider reported
SavePresenceAlwaysPlaying(u, data, t) ==
    [exists |-> TRUE, spotifyId |-> SpotifyId(u), isPlaying |-> TRUE,
     track |-> data, updatedAt |-> t, ttl |-> t + PresenceTtl]

\* fetch_presence.py:199-224  save_presence: the item handed to put_item
SavePresence(u, data, t) ==
    [exists |-> TRUE, spotifyId |-> SpotifyId(u), isPlaying |-> (data # "none"),
     track |-> data, updatedAt |-> t, ttl |-> t + PresenceTtl]

\* --------------------------------------------------------------- queue

\* the event source hands a batch of visible messages to an idle invocation
Receive(w) ==
    /\ ~Running(w)
    /\ invocations < MaxInvocations
    /\ invocations' = invocations + 1
    /\ \E b \in Batches({m \in Msgs : qstate[m] = "visible"}) :
        /\ qstate' = [m \in Msgs |-> IF m \in Range(b) THEN "inflight" ELSE qstate[m]]
        /\ rcv' = [m \in Msgs |-> IF m \in Range(b) THEN rcv[m] + 1 ELSE rcv[m]]
        /\ batch' = [batch EXCEPT ![w] = b]
    /\ idx' = [idx EXCEPT ![w] = 1]
    /\ pc' = [pc EXCEPT ![w] = "load"]
    /\ loc' = [loc EXCEPT ![w] = NoLoc]
    /\ ev' = [ev EXCEPT ![w] = <<>>]
    /\ hist' = [hist EXCEPT ![w] = <<>>]
    /\ UNCHANGED <<now, ticks, users, presence, issued, rateLimited, raceVars, netVars, appVars>>

\* the visibility window of an unacknowledged message elapses
Redeliver(m) ==
    /\ qstate[m] = "inflight"
    /\ \A w \in Workers : Running(w) => m \notin Range(batch[w])
    /\ qstate' = [qstate EXCEPT ![m] = "visible"]
    /\ UNCHANGED <<now, ticks, users, presence, issued, rcv, invocations, pc, batch, idx, loc, ev, hist, rateLimited, raceVars, netVars, appVars>>

\* time.time(): the clock has moved on by some amount since it was last read
Times == {now} \cup {now + d : d \in 1..(MaxTicks - ticks)}

ReadClock(t) ==
    /\ now' = t
    /\ ticks' = ticks + (t - now)

\* ------------------------------------------------------------- handler

CurMsg(w)  == batch[w][idx[w]]
CurUser(w) == msgUser[CurMsg(w)]

\* the current record is finished with `outcome`:
\*   "Retryable" - line 89 raises, line 117 re-raises: the invocation fails
\*   otherwise   - `continue` / fall through to the next record, or line 112
EndItem(w, outcome, evs) ==
    /\ hist' = [hist EXCEPT ![w] =
                  Append(@, [msg |-> CurMsg(w), user |-> CurUser(w), outcome |-> outcome,
                             ev |-> evs, loc |-> loc[w],
                             before |-> IF pc[w] = "load" THEN Snapshot(CurUser(w))
                                        ELSE loc[w].before])]
    /\ rateLimited' = IF outcome = "Retryable" /\ evs[Len(evs)].op = "cp"
                      THEN rateLimited \cup {CurMsg(w)} ELSE rateLimited
    /\ ev' = [ev EXCEPT ![w] = <<>>]
    /\ loc' = [loc EXCEPT ![w] = NoLoc]
    /\ IF outcome = "Retryable"
       THEN pc' = [pc EXCEPT ![w] = "failed"] /\ UNCHANGED idx
       ELSE IF idx[w] < Len(batch[w])
       THEN pc' = [pc EXCEPT ![w] = "load"] /\ idx' = [idx EXCEPT ![w] = @ + 1]
       ELSE pc' = [pc EXCEPT ![w] = "return"] /\ UNCHANGED idx

\* fetch_presence.py:83-106  except SpotifyAPIError raised by lines 68 or 71
OnSpotifyError(w, status, evs) ==
    IF OnStatus(status) = "raise" THEN EndItem(w, "Retryable", evs)
    ELSE IF OnStatus(status) = "refresh"
    THEN /\ pc' = [pc EXCEPT ![w] = "refresh401"]
         /\ ev' = [ev EXCEPT ![w] = evs]
         /\ UNCHANGED <<idx, loc, hist, rateLimited>>
    ELSE EndItem(w, "Dropped", evs)

\* fetch_presence.py:43-66  read the message, load the user, check the expiry
LoadUser(w) ==
    /\ pc[w] = "load"
    /\ \E dbOk \in BOOLEAN, t \in Times :
        LET user == IF dbOk THEN users[CurUser(w)] ELSE NoRow IN
        /\ ReadClock(t)
        /\ IF ~user.exists
           THEN EndItem(w, "Dropped", <<Event("load", "nouser", 0)>>)
           ELSE IF user.accessToken = 0 \/ user.refreshToken = 0
           THEN EndItem(w, "Dropped", <<Event("load", "notokens", 0)>>)
           ELSE /\ loc' = [loc EXCEPT ![w] = [access_token |-> user.accessToken,
                                              refresh_token |-> user.refreshToken,
                                              token_expires_at |-> user.tokenExpiresAt,
                                              current_time |-> t,
                                              presence_data |-> "none",
                                              before |-> Snapshot(CurUser(w))]]
                /\ IF NeedsRefresh(t, user.tokenExpiresAt)
                   THEN /\ pc' = [pc EXCEPT ![w] = "refresh"]
                        /\ ev' = [ev EXCEPT ![w] = <<Event("load", "expiring", user.accessToken)>>]
                   ELSE /\ pc' = [pc EXCEPT ![w] = "fetch"]
                        /\ ev' = [ev EXCEPT ![w] = <<Event("load", "valid", user.accessToken)>>]
                /\ UNCHANGED <<idx, hist, rateLimited>>
    /\ UNCHANGED <<users, presence, issued, qstate, rcv, invocations, batch, raceVars, netVars, appVars>>

\* fetch_presence.py:163-196  refresh_user_token: provider call, then update_item
\* on the Users table; the effect on the provider and on the table
RefreshUserToken(u, resp, dbOk, t) ==
    /\ ReadClock(t)
    /\ issued' = IF RefreshAccessToken(resp).ok THEN [issued EXCEPT ![u] = @ + 1] ELSE issued
    /\ users' = IF RefreshAccessToken(resp).ok /\ dbOk
                THEN [users EXCEPT ![u].accessToken = issued[u] + 1,
                                   ![u].tokenExpiresAt = t + DefaultExpiresIn]
                ELSE users

\* the calls refresh_user_token makes, appended to the record's log
RefreshEvents(u, evs, resp, dbOk) ==
    IF ~RefreshAccessToken(resp).ok THEN Append(evs, Event("refresh", resp, 0))
    ELSE Append(Append(evs, Event("refresh", resp, issued[u] + 1)),
                Event("persist", IF dbOk THEN "ok" ELSE "fail", issued[u] + 1))

\* fetch_presence.py:68  refresh before the fetch
PreRefresh(w) ==
    /\ pc[w] = "refresh"
    /\ \E resp \in RefreshResponses, dbOk \in BOOLEAN, t \in Times :
        LET evs == RefreshEvents(CurUser(w), ev[w], resp, dbOk) IN
        /\ RefreshUserToken(CurUser(w), resp, dbOk, t)
        /\ IF ~RefreshAccessToken(resp).ok
           THEN OnSpotifyError(w, RefreshAccessToken(resp).status, evs)
           ELSE IF ~dbOk
           THEN EndItem(w, "Dropped", evs)
           ELSE /\ loc' = [loc EXCEPT ![w].access_token = issued[CurUser(w)] + 1]
                /\ pc' = [pc EXCEPT ![w] = "fetch"]
                /\ ev' = [ev EXCEPT ![w] = evs]
                /\ UNCHANGED <<idx, hist, rateLimited>>
    /\ UNCHANGED <<presence, qstate, rcv, invocations, batch, raceVars, netVars, appVars>>

\* fetch_presence.py:71  the currently-playing call
Fetch(w) ==
    /\ pc[w] = "fetch"
    /\ \E resp \in CPResponses, t \in Tracks :
        LET r == FetchSpotifyPresence(resp, t)
            evs == Append(ev[w], Event("cp", resp, loc[w].access_token)) IN
        IF r.ok
        THEN /\ loc' = [loc EXCEPT ![w].presence_data = r.data]
             /\ pc' = [pc EXCEPT ![w] = "save"]
             /\ ev' = [ev EXCEPT ![w] = evs]
             /\ UNCHANGED <<idx, hist, rateLimited>>
        ELSE OnSpotifyError(w, r.status, evs)
    /\ UNCHANGED <<now, ticks, users, presence, issued, qstate, rcv, invocations, batch, raceVars, netVars, appVars>>

\* put_item of save_presence: the write, or a ClientError caught at line 108
PutPresence(w, dbOk, t) ==
    /\ ReadClock(t)
    /\ presence' = IF dbOk
                   THEN [presence EXCEPT ![CurUser(w)] =
                            SavePresence(CurUser(w), loc[w].presence_data, t)]
                   ELSE presence
    /\ EndItem(w, IF dbOk THEN "Stored" ELSE "Dropped",
               Append(ev[w], Event("put", IF dbOk THEN loc[w].presence_data ELSE "fail", 0)))

\* fetch_presence.py:73-81  save the playback, or the "not playing" status
Save(w) ==
    /\ pc[w] = "save"
    /\ \E dbOk \in BOOLEAN, t \in Times : PutPresence(w, dbOk, t)
    /\ UNCHANGED <<users, issued, qstate, rcv, invocations, batch, raceVars, netVars, appVars>>

\* fetch_presence.py:94-95  refresh after an unauthorized response
Refresh401(w) ==
    /\ pc[w] = "refresh401"
    /\ \E resp \in RefreshResponses, dbOk \in BOOLEAN, t \in Times :
        LET evs == RefreshEvents(CurUser(w), ev[w], resp, dbOk) IN
        /\ RefreshUserToken(CurUser(w), resp, dbOk, t)
        /\ IF RefreshAccessToken(resp).ok /\ dbOk
           THEN /\ loc' = [loc EXCEPT ![w].access_token = issued[CurUser(w)] + 1]
                /\ pc' = [pc EXCEPT ![w] = "retry"]
                /\ ev' = [ev EXCEPT ![w] = evs]
                /\ UNCHANGED <<idx, hist, rateLimited>>
           ELSE EndItem(w, "Dropped", evs)
    /\ UNCHANGED <<presence, qstate, rcv, invocations, batch, raceVars, netVars, appVars>>

\* fetch_presence.py:97-101  the retried currently-playing call
Retry(w) ==
    /\ pc[w] = "retry"
    /\ \E resp \in CPResponses, t \in Tracks :
        LET r == FetchSpotifyPresence(resp, t)
            evs == Append(ev[w], Event("cp", resp, loc[w].access_token)) IN
        IF r.ok /\ r.data # "none"
        THEN /\ loc' = [loc EXCEPT ![w].presence_data = r.data]
             /\ pc' = [pc EXCEPT ![w] = "retrysave"]
             /\ ev' = [ev EXCEPT ![w] = evs]
             /\ UNCHANGED <<idx, hist, rateLimited>>
        ELSE EndItem(w, "Dropped", evs)
    /\ UNCHANGED <<now, ticks, users, presence, issued, qstate, rcv, invocations, batch, raceVars, netVars, appVars>>

\* fetch_presence.py:98-99  save after the retry
RetrySave(w) ==
    /\ pc[w] = "retrysave"
    /\ \E dbOk \in BOOLEAN, t \in Times : PutPresence(w, dbOk, t)
    /\ UNCHANGED <<users, issued, qstate, rcv, invocations, batch, raceVars, netVars, appVars>>

\* fetch_presence.py:112  the invocation returns 200: the event source deletes
\* every message of the batch
Return(w) ==
    /\ pc[w] = "return"
    /\ pc' = [pc EXCEPT ![w] = "returned"]
    /\ qstate' = [m \in Msgs |-> IF m \in Range(batch[w]) THEN "deleted" ELSE qstate[m]]
    /\ UNCHANGED <<now, ticks, users, presence, issued, rcv, invocations, batch, idx, loc, ev, hist, rateLimited, raceVars, netVars, appVars>>

Next ==
    \/ \E w \in Workers : Receive(w)
    \/ \E w \in Workers : LoadUser(w)
    \/ \E w \in Workers : PreRefresh(w)
    \/ \E w \in Workers : Fetch(w)
    \/ \E w \in Workers : Save(w)
    \/ \E w \in Workers : Refresh401(w)
    \/ \E w \in Workers : Retry(w)
    \/ \E w \in Workers : RetrySave(w)
    \/ \E w \in Workers : Return(w)
    \/ \E m \in Msgs : Redeliver(m)

Spec == Init /\ [][Next]_vars

TypeOK ==
    /\ now \in Nat /\ ticks \in 0..MaxTicks
    /\ \A m \in Msgs : qstate[m] \in {"visible", "inflight", "deleted"} /\ rcv[m] \in 0..MaxInvocations
    /\ \A w \in Workers : idx[w] \in 0..MaxBatch /\ Len(batch[w]) <= MaxBatch

\* ------------------------------------------------- reading the call logs

Finished(w) == pc[w] \in {"returned", "failed"}

\* the finished records of every invocation that is running or has just ended
Items == UNION {{[w |-> w, h |-> hist[w][i]] : i \in DOMAIN hist[w]} : w \in Workers}

Calls(evs, op) == {i \in DOMAIN evs : evs[i].op = op}

\* a currently-playing call made at line 71: no unauthorized response precedes it
InitialCall(evs, i) == evs[i].op = "cp" /\ \A j \in 1..(i - 1) : evs[j].resp # "401"

NothingPlaying == {"paused", "204"}
FetchSucceeded == {"playing"} \cup NothingPlaying

Acked(m) == qstate[m] = "deleted"

\* unacknowledged, and handed out again once its visibility window has elapsed
Redeliverable(m) == qstate[m] = "visible" \/ ENABLED Redeliver(m)

\* ------------------------------------------------------------------ C1

C2_StoredAndAckedAfterRedelivery ==
    \A it \in Items :
        (/\ Finished(it.w)
         /\ it.h.msg \in rateLimited
         /\ rcv[it.h.msg] >= 2
         /\ it.h.outcome = "Stored"
         /\ \E i \in Calls(it.h.ev, "cp") : InitialCall(it.h.ev, i) /\ it.h.ev[i].resp \in FetchSucceeded)
        => /\ presence[it.h.user].exists
           /\ Acked(it.h.msg)

\* ------------------------------------------------------------------ C3

\* C3: once an invocation is over, every record of its batch that ended Stored
\* or Dropped is acknowledged, whatever happened to the other records, and
\* only a record that ended Retryable is left unacknowledged.
C3_StoredOrDroppedIsAcked ==
    \A it \in Items :
        Finished(it.w) =>
            /\ it.h.outcome \in {"Stored", "Dropped"} => Acked(it.h.msg)
            /\ it.h.outcome = "Retryable" => ~Acked(it.h.msg)

\* ------------------------------------------------------------------ C4

\* C4: once an invocation is over, every record of its batch has been
\* processed, whatever failure another record of the batch ran into.
C4_EveryRecordProcessed ==
    \A w \in Workers :
        Finished(w) => Len(hist[w]) = Len(batch[w])

\* ------------------------------------------------------------------ C5

After(evs, i, op) == {j \in Calls(evs, op) : j > i}

\* C5: a record makes at most two currently-playing calls, the second only
\* after the first returned 401; the first call returning 401 is followed by
\* exactly one refresh and, when that refresh succeeds, by exactly one further
\* call; if the refresh or the further call fails the record ends Dropped:
\* nothing stored and, once the invocation is over, the message acknowledged.
C5_OneRefreshAndRetry ==
    \A it \in Items :
        LET evs == it.h.ev
            cps == Calls(evs, "cp") IN
        /\ Cardinality(cps) <= 2
        /\ \A i, j \in cps : i < j => evs[i].resp = "401"
        /\ \A i \in cps :
            (evs[i].resp = "401" /\ \A j \in cps : j >= i) =>
                /\ Cardinality(After(evs, i, "refresh")) = 1
                /\ \A r \in After(evs, i, "refresh") :
                    IF evs[r].resp = "ok" /\ evs[r + 1].resp = "ok"
                    THEN Cardinality(After(evs, i, "cp")) = 1
                    ELSE After(evs, i, "cp") = {}
                /\ (\/ \E r \in After(evs, i, "refresh") :
                            evs[r].resp # "ok" \/ evs[r + 1].resp # "ok"
                    \/ \E c \in After(evs, i, "cp") : evs[c].resp \notin FetchSucceeded)
                   => /\ it.h.outcome = "Dropped"
                      /\ Calls(evs, "put") = {}
                      /\ presence[it.h.user] = it.h.before.presence
                      /\ Finished(it.w) => Acked(it.h.msg)

\* ------------------------------------------------------------------ C6

LastCall(evs) == CHOOSE i \in Calls(evs, "cp") : \A j \in Calls(evs, "cp") : j <= i

\* C6: a record whose last currently-playing call (the first call, or the
\* retry after a 401) reports that nothing is playing is saved as a
\* successful fetch: unless put_item itself fails, the record ends Stored and
\* the user's presence row has isPlaying = FALSE.
C6_NothingPlayingIsStored ==
    \A it \in Items :
        (/\ Calls(it.h.ev, "cp") # {}
         /\ it.h.ev[LastCall(it.h.ev)].resp \in NothingPlaying
         /\ \A i \in Calls(it.h.ev, "put") : it.h.ev[i].resp # "fail")
        => /\ it.h.outcome = "Stored"
           /\ presence[it.h.user].exists
           /\ ~presence[it.h.user].isPlaying

\* ------------------------------------------------------------------ C7

\* the record needed a refresh before the fetch, and that refresh failed
PreRefreshFailed(h) ==
    /\ Len(h.ev) >= 2
    /\ h.ev[1].resp = "expiring"
    /\ h.ev[2].op = "refresh" /\ h.ev[2].resp # "ok"

\* C7: a record whose refresh before the fetch fails with any provider error
\* ends Dropped: no currently-playing call, nothing stored, no second refresh,
\* and, once the invocation is over, the message acknowledged.
C7_FailedPreRefreshDrops ==
    \A it \in Items :
        PreRefreshFailed(it.h) =>
            /\ it.h.outcome = "Dropped"
            /\ Calls(it.h.ev, "cp") = {}
            /\ Calls(it.h.ev, "put") = {}
            /\ presence[it.h.user] = it.h.before.presence
            /\ Cardinality(Calls(it.h.ev, "refresh")) = 1
            /\ Finished(it.w) => Acked(it.h.msg)

\* ------------------------------------------------------------------ C8

\* the expiry test of the handler, on the values the record loaded
Expiring(l) == l.current_time >= l.token_expires_at - RefreshMargin

\* the logs of the finished records and of the records in progress
Logs ==
    {[user |-> it.h.user, ev |-> it.h.ev, loc |-> it.h.loc] : it \in Items}
    \cup {[user |-> CurUser(w), ev |-> ev[w], loc |-> loc[w]] :
            w \in {x \in Workers : Running(x) /\ ev[x] # <<>>}}

\* C8: when now >= tokenExpiry - 300 at the load, every currently-playing call
\* of the record is made with a token that a refresh of this record returned
\* and update_item wrote to the Users row, together with a new expiry, before
\* the call; when now < tokenExpiry - 300 no refresh precedes the first call,
\* which is made with the stored token, and the Users row is untouched.
C8_RefreshBeforeFetch ==
    /\ \A w \in Workers :
        LET l == loc[w]
            row == users[CurUser(w)] IN
        /\ (pc[w] \in {"fetch", "retry"} /\ Expiring(l)) =>
                /\ row.accessToken = l.access_token
                /\ row.accessToken # l.before.user.accessToken
                /\ row.tokenExpiresAt >= l.current_time + DefaultExpiresIn
        /\ (pc[w] = "fetch" /\ ~Expiring(l)) =>
                /\ row = l.before.user
                /\ l.access_token = row.accessToken
    /\ \A g \in Logs :
        \A i \in Calls(g.ev, "cp") :
            IF Expiring(g.loc)
            THEN /\ \E j \in 1..(i - 2) :
                    /\ g.ev[j].op = "refresh" /\ g.ev[j].resp = "ok"
                    /\ g.ev[j + 1].op = "persist" /\ g.ev[j + 1].resp = "ok"
                    /\ g.ev[i].tok = g.ev[j].tok
                    /\ \A k \in (j + 2)..(i - 1) : g.ev[k].op # "refresh"
            ELSE InitialCall(g.ev, i) =>
                    /\ \A j \in 1..(i - 1) : g.ev[j].op # "refresh"
                    /\ g.ev[i].tok = g.loc.before.user.accessToken

\* a record that loaded its user exactly at the refresh boundary, refreshed,
\* fetched with the new token and stored the result
C8_Witness ==
    \E it \in Items :
        /\ it.h.loc.current_time = it.h.loc.token_expires_at - RefreshMargin
        /\ it.h.outcome = "Stored"
        /\ \E i \in Calls(it.h.ev, "cp") :
            /\ InitialCall(it.h.ev, i)
            /\ it.h.ev[i].tok = users[it.h.user].accessToken
            /\ it.h.ev[i].tok # it.h.before.user.accessToken

\* ------------------------------------------------------------------ C9

\* C9: a record whose user row, access token or refresh token is missing ends
\* Dropped without any provider call, leaves the Presence and Users rows as
\* they were and, once the invocation is over, its message is acknowledged.
C9_MissingCredentialsDrop ==
    \A it \in Items :
        (\/ ~it.h.before.user.exists
         \/ it.h.before.user.accessToken = 0
         \/ it.h.before.user.refreshToken = 0)
        => /\ it.h.outcome = "Dropped"
           /\ Calls(it.h.ev, "cp") = {} /\ Calls(it.h.ev, "refresh") = {}
           /\ presence[it.h.user] = it.h.before.presence
           /\ users[it.h.user] = it.h.before.user
           /\ Finished(it.w) => Acked(it.h.msg)

\* ------------------------------------------------------------------ C10

OtherErrors == {"500", "neterr"}

\* C10: a record whose currently-playing call fails with an error other than
\* 429 and 401 ends Dropped: the Presence row is as it was and, once the
\* invocation is over, the message is acknowledged.
C10_OtherErrorsDrop ==
    \A it \in Items :
        (\E i \in Calls(it.h.ev, "cp") : it.h.ev[i].resp \in OtherErrors)
        => /\ it.h.outcome = "Dropped"
           /\ Calls(it.h.ev, "put") = {}
           /\ presence[it.h.user] = it.h.before.presence
           /\ Finished(it.w) => Acked(it.h.msg)

\* ------------------------------------- two deliveries of one work item

\* no invocation of the batch handler is running and the queue is untouched
FetchIdle ==
    /\ issued = [u \in Users |-> 1]
    /\ qstate = [m \in Msgs |-> "visible"]
    /\ rcv = [m \in Msgs |-> 0]
    /\ invocations = 0
    /\ pc = [w \in Workers |-> "idle"]
    /\ batch = [w \in Workers |-> <<>>]
    /\ idx = [w \in Workers |-> 0]
    /\ loc = [w \in Workers |-> NoLoc]
    /\ ev = [w \in Workers |-> <<>>]
    /\ hist = [w \in Workers |-> <<>>]
    /\ rateLimited = {}

\* the work item of RaceUser has been delivered twice (at-least-once queue),
\* to two invocations that both found valid tokens and are at line 71
InitRace ==
    /\ now = StartTime
    /\ ticks = 0
    /\ users = [u \in Users |-> Row(1, 1, ValidAt + MaxTicks)]
    /\ presence = [u \in Users |-> NoPres]
    /\ FetchIdle
    /\ playback \in Tracks \cup {"none"}
    /\ rpc = [d \in Deliveries |-> "fetch"]
    /\ rdata = [d \in Deliveries |-> "none"]
    /\ rts = [d \in Deliveries |-> 0]
    /\ fetched = <<>>
    /\ writes = <<>>
    /\ NetIdle
    /\ AppIdle

\* the user starts, or stops, a track at the provider
PlaybackChange ==
    /\ \E p \in (Tracks \cup {"none"}) \ {playback} : playback' = p
    /\ \E d \in Deliveries : rpc[d] # "done"
    /\ UNCHANGED <<now, ticks, users, presence, fetchVars, rpc, rdata, rts, fetched, writes,
                   netVars, appVars>>

\* fetch_presence.py:71  the currently-playing call of one delivery: 200 with
\* is_playing, or 200 paused / 204 when nothing plays
RaceFetch(d) ==
    /\ rpc[d] = "fetch"
    /\ \E resp \in IF playback = "none" THEN NothingPlaying ELSE {"playing"} :
        rdata' = [rdata EXCEPT ![d] = FetchSpotifyPresence(resp, playback).data]
    /\ rpc' = [rpc EXCEPT ![d] = "stamp"]
    /\ fetched' = Append(fetched, d)
    /\ UNCHANGED <<now, ticks, users, presence, fetchVars, playback, rts, writes, netVars, appVars>>

\* fetch_presence.py:208  save_presence reads the clock
RaceStamp(d) ==
    /\ rpc[d] = "stamp"
    /\ \E t \in Times :
        /\ ReadClock(t)
        /\ rts' = [rts EXCEPT ![d] = t]
    /\ rpc' = [rpc EXCEPT ![d] = "put"]
    /\ UNCHANGED <<users, presence, fetchVars, playback, rdata, fetched, writes, netVars, appVars>>

\* fetch_presence.py:224  put_item without a condition: the item replaces
\* the row, or the call raises and the record is logged at line 108
RacePut(d) ==
    /\ rpc[d] = "put"
    /\ \E dbOk \in BOOLEAN :
        LET item == SavePresence(RaceUser, rdata[d], rts[d]) IN
        /\ presence' = IF dbOk THEN [presence EXCEPT ![RaceUser] = item] ELSE presence
        /\ writes' = IF dbOk THEN Append(writes, item) ELSE writes
    /\ rpc' = [rpc EXCEPT ![d] = "done"]
    /\ UNCHANGED <<now, ticks, users, fetchVars, playback, rdata, rts, fetched, netVars, appVars>>

NextRace ==
    \/ PlaybackChange
    \/ \E d \in Deliveries : RaceFetch(d)
    \/ \E d \in Deliveries : RaceStamp(d)
    \/ \E d \in Deliveries : RacePut(d)

SpecRace == InitRace /\ [][NextRace]_vars

\* ------------------------------------------- presence rows and their readers

\* rows of the Friends table the runs start from: both directions of one
\* friendship, and one direction of another
FriendEdges == {<<"u1", "u2">>, <<"u2", "u1">>, <<"u1", "u3">>}

\* the visibility attribute of the Users rows; "unset" is a row without it
Visibilities == {"private", "friends", "public", "unset"}

\* tables as the handlers find them: every user has a row, u1 has one open
\* connection, u3 has two, u2 has none
InitNet ==
    /\ now = StartTime
    /\ ticks = 0
    /\ users = [u \in Users |-> Row(1, 1, ValidAt + MaxTicks)]
    /\ presence = [u \in Users |-> NoPres]
    /\ FetchIdle
    /\ RaceIdle
    /\ friends \in SUBSET FriendEdges
    /\ visibility \in {v \in [Users -> Visibilities] : v["u2"] = "friends" /\ v["u3"] = "friends"}
    /\ lastLogin \in {l \in [Users -> {0, StartTime}] : l["u2"] = StartTime /\ l["u3"] = StartTime}
    /\ conns = [c \in Conns |-> IF c = "c1" THEN "u1" ELSE "u3"]
    /\ stream = <<>>
    /\ bc = NoBroadcast
    /\ view = NoView
    /\ AppIdle

\* fetch_presence.py:199-224 as the tables see it: an invocation of the fetcher
\* saves the playback of u; the table emits INSERT or MODIFY when the item
\* differs from the stored one
PresenceWrite(u, data) ==
    /\ invocations < MaxChanges
    /\ invocations' = invocations + 1
    /\ \E t \in Times :
        LET item == SavePresence(u, data, t) IN
        /\ ReadClock(t)
        /\ presence' = [presence EXCEPT ![u] = item]
        /\ stream' = IF item = presence[u] THEN stream
                      ELSE Append(stream, StreamRecord(IF presence[u].exists THEN "MODIFY"
                                                       ELSE "INSERT", u, item))
    /\ UNCHANGED <<appVars, users, issued, qstate, rcv, pc, batch, idx, loc, ev, hist, rateLimited,
                   raceVars, friends, visibility, lastLogin, conns, bc, view>>

\* a day goes by without a write
DayPasses ==
    /\ now < StartTime + MaxDays * PresenceTtl
    /\ now' = now + PresenceTtl
    /\ UNCHANGED <<ticks, users, presence, fetchVars, raceVars, netVars, appVars>>

\* the table's time-to-live sweep removes a row whose ttl has passed, some
\* time after it passed; the stream gets a REMOVE record
Expire(u) ==
    /\ presence[u].exists
    /\ now >= presence[u].ttl
    /\ presence' = [presence EXCEPT ![u] = NoPres]
    /\ stream' = Append(stream, StreamRecord("REMOVE", u, NoPres))
    /\ UNCHANGED <<appVars, now, ticks, users, fetchVars, raceVars, friends, visibility, lastLogin, conns, bc, view>>

\* get_network.py:39-45  the requester first, then the friendIds of its rows
NetworkIds(viewer, friendsOk) ==
    {viewer} \cup {e[2] : e \in {f \in friends : friendsOk /\ f[1] = viewer}}

\* get_network.py:64-80  one node, from the profile and the presence row found
Node(profile, vis, row) ==
    [listed |-> TRUE,
     visibility |-> IF profile.exists /\ vis # "unset" THEN vis ELSE "friends",
     isPlaying |-> row.isPlaying, track |-> row.track, updatedAt |-> row.updatedAt,
     row |-> row]

\* get_network.py:31-82  the presence network of the requester; query_items and
\* batch_get_items answer [] when the table call fails (db: the call that does)
GetNetwork(viewer) ==
    /\ \E db \in {"ok", "friends", "users", "presence"} :
        view' = [served |-> TRUE, viewer |-> viewer, at |-> now,
                 nodes |-> [u \in Users |->
                     IF u \in NetworkIds(viewer, db # "friends")
                     THEN Node(IF db # "users" THEN users[u] ELSE NoRow, visibility[u],
                               IF db # "presence" THEN presence[u] ELSE NoPres)
                     ELSE NoNode]]
    /\ UNCHANGED <<appVars, now, ticks, users, presence, fetchVars, raceVars, friends, visibility,
                   lastLogin, conns, stream, bc>>

NextView ==
    \/ \E u \in Range(msgUser), data \in Tracks \cup {"none"} : PresenceWrite(u, data)
    \/ DayPasses
    \/ \E u \in Users : Expire(u)
    \/ \E viewer \in Users : GetNetwork(viewer)

\* the tables of InitNet, every Users row written by a login
InitView == InitNet /\ lastLogin = [u \in Users |-> StartTime]

SpecView == InitView /\ [][NextView]_vars

\* ------------------------------------------------------ broadcast handler

\* broadcast.py:135-155  parse_presence_from_dynamodb: track fields only when playing
ParsePresenceFromDynamodb(rec) ==
    [userId |-> rec.userId, spotifyId |-> rec.image.spotifyId,
     isPlaying |-> rec.image.isPlaying, updatedAt |-> rec.image.updatedAt,
     track |-> IF rec.image.isPlaying THEN rec.image.track ELSE "none"]

\* broadcast.py:163-175  build_graph_node copies attributes of the Users row
BuildGraphNode(u, data) ==
    [userId |-> data.userId, visibility |-> visibility[u], lastLogin |-> lastLogin[u],
     presence |-> data]

\* broadcast.py:229-238  the message of a presence update
Message(u, data) ==
    [type |-> "presence_update", userId |-> data.userId, data |-> data,
     graphNode |-> BuildGraphNode(u, data)]

\* broadcast.py:240  json.dumps(message) with the default encoder: a Number
\* read from the table is a Decimal and raises TypeError (the encoder of
\* response_utils.py:9-18 is not used here); an absent attribute is null
JsonDumps(message) == message.graphNode.lastLogin = 0

\* mutant: a private user is handled like one who shares with friends
VisibilityShared(u) == IF visibility[u] \in {"unset", "private"} THEN "friends" ELSE visibility[u]

\* broadcast.py:83  user.get('visibility', 'friends')
Visibility(u) == IF visibility[u] = "unset" THEN "friends" ELSE visibility[u]

\* mutant: the friend rows are read in the other direction
GetBroadcastRecipientsReversed(u, vis, ok) ==
    IF vis \in {"friends", "public"}
    THEN {f[1] : f \in {e \in friends : ok /\ e[2] = u}}
    ELSE {}

\* broadcast.py:178-213  get_broadcast_recipients: the friendIds of the rows
\* keyed by the user, the same for "friends" and "public"; query_items
\* answers [] when the table call fails
GetBroadcastRecipients(u, vis, ok) ==
    IF vis \in {"friends", "public"}
    THEN {f[2] : f \in {e \in friends : ok /\ e[1] = u}}
    ELSE {}

\* mutant: the user's own connections are left out
AudienceWithoutSelf(u, vis, ok) == GetBroadcastRecipients(u, vis, ok)

\* broadcast.py:94-97  the recipients, and the user itself
Audience(u, vis, ok) == GetBroadcastRecipients(u, vis, ok) \cup {u}

\* the order in which the UserIdIndex query returns connection rows
ConnOrder == <<"c1", "c2", "c3">>

\* broadcast.py:248-252  the connection rows of one recipient
ConnectionsOf(r, ok) ==
    IF ok THEN SelectSeq(ConnOrder, LAMBDA c : conns[c] = r) ELSE <<>>

\* post_to_connection and what follows it: delivered; GoneException with the
\* row deleted; GoneException with delete_item raising; another ClientError;
\* an exception that is not a ClientError (timeout, connection error)
PostOutcomes == {"ok", "gone", "goneDeleteFails", "error", "timeout"}

\* the answers of the transport to the sends of one broadcast: at most k of
\* the connections fail
Responses(cs, k) ==
    {resp \in [cs -> PostOutcomes] : Cardinality({c \in cs : resp[c] # "ok"}) <= k}

\* outcomes that leave the inner try and end at line 278
Escapes == {"goneDeleteFails", "timeout"}

RECURSIVE PostAll(_, _)
\* broadcast.py:255-279  the sends to the connections of one recipient, in
\* order, up to the first exception that the inner except does not handle
PostAll(cs, resp) ==
    IF cs = <<>> THEN <<>>
    ELSE LET a == [conn |-> Head(cs), resp |-> resp[Head(cs)]] IN
         IF resp[Head(cs)] \in Escapes THEN <<a>>
         ELSE <<a>> \o PostAll(Tail(cs), resp)

\* the sends of a whole broadcast, recipient by recipient
Sent(sends, which) ==
    {c \in Conns : \E r \in Users : \E i \in DOMAIN sends[r] :
        sends[r][i].conn = c /\ sends[r][i].resp \in which}

\* mutant: a stale connection takes every connection of its user with it
RegistryAfterPurgeUser(sends) ==
    [c \in Conns |-> IF \E d \in Sent(sends, {"gone"}) : conns[d] = conns[c]
                     THEN "none" ELSE conns[c]]

\* broadcast.py:267-272  delete_item on the connectionId that answered Gone
RegistryAfter(sends) ==
    [c \in Conns |-> IF c \in Sent(sends, {"gone"}) THEN "none" ELSE conns[c]]

\* broadcast.py:216-281  broadcast_to_users after the payload is built
BroadcastToUsers(user_ids, resp, ok) ==
    [r \in Users |-> IF r \in user_ids THEN PostAll(ConnectionsOf(r, ok), resp) ELSE <<>>]

\* broadcast.py:58-117  one record of the stream batch (the records of a
\* batch are handled one by one, each in its own try)
Broadcast ==
    /\ stream # <<>>
    /\ stream' = Tail(stream)
    /\ LET rec  == Head(stream)
           u    == rec.userId
       IN
       \E db \in {"ok", "users", "friends", "connections"} :
         LET done == [NoBroadcast EXCEPT !.handled = TRUE, !.record = rec, !.before = conns,
                                         !.fault = db]
         IN
         IF rec.eventName \notin {"INSERT", "MODIFY"}
         THEN bc' = [done EXCEPT !.outcome = "skipped"] /\ UNCHANGED conns
         ELSE IF db = "users" \/ ~users[u].exists
         THEN bc' = [done EXCEPT !.outcome = "nouser"] /\ UNCHANGED conns
         ELSE IF Visibility(u) = "private"
         THEN bc' = [done EXCEPT !.outcome = "private", !.visibility = "private"]
              /\ UNCHANGED conns
         ELSE LET data       == ParsePresenceFromDynamodb(rec)
                  recipients == Audience(u, Visibility(u), db # "friends")
                  found      == [done EXCEPT !.visibility = Visibility(u), !.audience = recipients]
              IN
              IF ~JsonDumps(Message(u, data))
              THEN bc' = [found EXCEPT !.outcome = "error"] /\ UNCHANGED conns
              ELSE \E resp \in Responses({c \in Conns : conns[c] \in recipients},
                                           IF db = "ok" THEN MaxFailures ELSE MaxFailures - 1) :
                     LET sends == BroadcastToUsers(recipients, resp, db # "connections") IN
                     /\ bc' = [found EXCEPT !.outcome = "done", !.encoded = TRUE,
                                            !.sends = sends,
                                            !.count = Cardinality(Sent(sends, {"ok"}))]
                     /\ conns' = RegistryAfter(sends)
    /\ UNCHANGED <<appVars, now, ticks, users, presence, fetchVars, raceVars, friends, visibility,
                   lastLogin, view>>

NextBroadcast ==
    \/ \E u \in Range(msgUser), data \in Tracks \cup {"none"} : PresenceWrite(u, data)
    \/ DayPasses
    \/ \E u \in Users : Expire(u)
    \/ Broadcast

SpecBroadcast == InitNet /\ [][NextBroadcast]_vars

\* ------------------------------------------------------------ C11

\* the records whose last call was a put_item that succeeded
Stores == {it \in Items : it.h.outcome = "Stored"}

\* C11: every record of the Presence Store has ttl = updatedAt + 86400, with
\* updatedAt a clock reading taken between the start of the work item and now,
\* sits under the userId of the work item that wrote it (a user no work item
\* wrote for has no record), and says isPlaying exactly when the provider's
\* last answer to that work item was an actively playing track
C11_RecordShape ==
    /\ \A u \in Users :
        presence[u].exists =>
            /\ presence[u].ttl = presence[u].updatedAt + PresenceTtl
            /\ presence[u].updatedAt \in StartTime..now
            /\ presence[u].spotifyId = SpotifyId(u)
            /\ presence[u].isPlaying <=> presence[u].track \in Tracks
            /\ u \in Range(msgUser)
    /\ \A it \in Stores :
        LET h == it.h IN
        /\ presence[h.user].exists
        /\ presence[h.user].isPlaying <=> h.ev[LastCall(h.ev)].resp = "playing"
        /\ presence[h.user].updatedAt >= h.loc.current_time

\* a work item wrote a "not playing" record after the clock moved, and another
\* user's record says playing
C11_Witness ==
    \E it \in Stores :
        /\ it.h.ev[LastCall(it.h.ev)].resp \in NothingPlaying
        /\ presence[it.h.user].exists /\ ~presence[it.h.user].isPlaying
        /\ presence[it.h.user].updatedAt > StartTime
        /\ \E u \in Users \ {it.h.user} : presence[u].exists /\ presence[u].isPlaying

\* ------------------------------------------------------------ C12

\* both deliveries are over, both saw the same playback and both wrote
SamePlaybackTwice ==
    /\ \A d \in Deliveries : rpc[d] = "done"
    /\ \A d, e \in Deliveries : rdata[d] = rdata[e]
    /\ Len(writes) = Cardinality(Deliveries)

\* C12: after the work item was processed twice for unchanged playback, the
\* store holds one record, under the user's key, whose playback fields are
\* those the one processing fetched, and no write lowered updatedAt
C12_RedeliveryIdempotent ==
    SamePlaybackTwice =>
        /\ \A u \in Users : presence[u].exists <=> u = RaceUser
        /\ \A d \in Deliveries :
              /\ presence[RaceUser].track = rdata[d]
              /\ presence[RaceUser].isPlaying = (rdata[d] # "none")
        /\ \A i \in 1..(Len(writes) - 1) : writes[i + 1].updatedAt >= writes[i].updatedAt

\* ------------------------------------------------------------ C13

\* C13: every write that was applied carries an updatedAt strictly greater
\* than the one of the record it replaced
C13_OnlyNewerWritesApply ==
    \A i \in 1..(Len(writes) - 1) : writes[i + 1].updatedAt > writes[i].updatedAt

\* ------------------------------------------------------------ C35

\* C35: once both deliveries have completed and both writes were applied, the
\* stored record carries what the later of the two provider calls returned
C35_LaterFetchWins ==
    ((\A d \in Deliveries : rpc[d] = "done") /\ Len(writes) = Cardinality(Deliveries)) =>
        /\ presence[RaceUser].track = rdata[fetched[Len(fetched)]]
        /\ presence[RaceUser].isPlaying = (rdata[fetched[Len(fetched)]] # "none")

\* ------------------------------------------------------------ C14

\* C14: a node of the presence network built from a row whose ttl had passed
\* when the request was served (the row not yet swept) carries no presence
\* data: not playing, no track
C14_ExpiredRowIsNotServed ==
    view.served =>
        \A u \in Users :
            (view.nodes[u].listed /\ view.nodes[u].row.exists /\ view.at >= view.nodes[u].row.ttl)
                => ~view.nodes[u].isPlaying /\ view.nodes[u].track = "none"
                   /\ view.nodes[u].updatedAt = 0

\* ------------------------------------------------------------ C15

\* the last stream record was a change (INSERT or MODIFY) of user u that the
\* handler took up with the Users row in hand
Changed(u) ==
    /\ bc.handled
    /\ bc.record.eventName \in {"INSERT", "MODIFY"}
    /\ bc.record.userId = u
    /\ bc.fault # "users"

\* every connection the handler attempted a send to
Attempted == Sent(bc.sends, PostOutcomes)

\* C15: a change event of a user whose visibility is private when the handler
\* takes it up leads to no send at all, to friends' connections or to the
\* user's own, and leaves the Connections table as it was
C15_PrivateSendsNothing ==
    \A u \in Users :
        (Changed(u) /\ visibility[u] = "private") =>
            /\ Attempted = {}
            /\ bc.count = 0
            /\ conns = bc.before

\* a private user with an open connection and a friend with open connections
\* changed, and the handler took the event up
C15_Witness ==
    \E u \in Users :
        /\ Changed(u) /\ visibility[u] = "private"
        /\ lastLogin[u] = 0
        /\ \E c \in Conns : conns[c] = u
        /\ \E f \in Users \ {u} : <<u, f>> \in friends /\ \E c \in Conns : conns[c] = f

\* ------------------------------------------------------------ C16

\* the friendIds of the Friends rows keyed by u
FriendsOf(u) == {f \in Users : <<u, f>> \in friends}

SendsTo(c) ==
    Cardinality({p \in Users \X (1..Cardinality(Conns)) :
                    p[2] \in DOMAIN bc.sends[p[1]] /\ bc.sends[p[1]][p[2]].conn = c})

\* C18: for a change event of a non-private user (every table read
\* succeeding) each connection registered for an audience member gets exactly
\* one send, a connection of a user outside the audience gets none, and the
\* count returned is the number of sends that succeeded
C18_OneSendPerConnection ==
    \A u \in Users :
        (Changed(u) /\ Visibility(u) # "private" /\ bc.fault = "ok") =>
            /\ \A c \in Conns :
                  SendsTo(c) = IF bc.before[c] \in bc.audience THEN 1 ELSE 0
            /\ bc.count = Cardinality(Sent(bc.sends, {"ok"}))

\* ------------------------------------------------------------ C19

\* the connections whose send was answered with GoneException
Gone == Sent(bc.sends, {"gone", "goneDeleteFails"})

C20_FailureDoesNotStopSends ==
    (bc.handled /\ bc.encoded /\ bc.fault = "ok") =>
        \A c \in Sent(bc.sends, PostOutcomes \ {"ok"}) :
            \A d \in Conns \ {c} : bc.before[d] \in bc.audience => d \in Attempted

\* ---------------------------------------------------------------------------
\* The scheduled discovery (src/presence/discover_active_users.py)
\* ---------------------------------------------------------------------------
SevenDays == 604800      \* discover_active_users.py:47  (7 * 24 * 60 * 60)

\* the order in which a run walks its users (list(active_user_ids))
UserOrder == <<"u1", "u2", "u3">>

\* the table reads of a run, by what they read: the index query for each
\* visibility value, the three scans, the batched lookup of missing profiles
DiscoverReads == {"public", "friends", "queues", "members", "edges", "users"}

\* a read fails with a ClientError, which the table helpers answer with [],
\* or with any other exception, which they let through
FaultKinds == {"ClientError", "other"}

\* accept_request.py:88-115  the two rows of a friendship
Mutual(a, b) == {<<a, b>>, <<b, a>>}

\* tables as a scheduled run finds them: friendships have both rows; the last
\* login of a user is a second ago or one second outside the window; u3 may
\* have no Users row; at most one queue, owned by u2, with or without u3 as
\* member
InitDiscover ==
    /\ now = StartTime + SevenDays + 1
    /\ ticks = 0
    /\ users \in {f \in [Users -> {NoRow, Row(1, 1, ValidAt)}] :
                    f["u1"].exists /\ f["u2"].exists}
    /\ presence = [u \in Users |-> NoPres]
    /\ FetchIdle
    /\ RaceIdle
    /\ friends \in {UNION P : P \in SUBSET {Mutual("u1", "u2"), Mutual("u1", "u3")}}
    /\ visibility \in {v \in [Users -> Visibilities] :
                         /\ v["u1"] \in {"friends", "public"}
                         /\ v["u2"] \in {"friends", "private"}
                         /\ v["u3"] \in {"friends", "private", "unset"}}
    /\ lastLogin \in [Users -> {now - 1, now - SevenDays - 1}]
    /\ conns = [c \in Conns |-> "none"]
    /\ stream = <<>>
    /\ bc = NoBroadcast
    /\ view = NoView
    /\ queues \in {[q \in Queues |-> NoQueue],
                   [q \in Queues |-> IF q = "q1" THEN Queue("u2", TRUE) ELSE NoQueue]}
    /\ members \in IF queues["q1"].exists
                   THEN {{MemberRow("q1", "u2", "owner")},
                         {MemberRow("q1", "u2", "owner"), MemberRow("q1", "u3", "member")}}
                   ELSE {{}}
    /\ requests = [r \in Reqs |-> NoRequest]
    /\ disc = NoDiscovery
    /\ calls = [a \in ApiCalls |-> NoCall]
    /\ api = NoResponse

\* discover_active_users.py:47-58  the rows RecentActivityIndex answers for one
\* visibility value: rows that carry both keys, lastLogin after the cutoff
RecentUsers(vis, ok) ==
    IF ok
    THEN {u \in Users : /\ users[u].exists
                        /\ visibility[u] = vis
                        /\ lastLogin[u] > now - SevenDays}
    ELSE {}

\* discover_active_users.py:49-58  recent_users
RecentShareable(fault) ==
    RecentUsers("public", fault # "public") \cup RecentUsers("friends", fault # "friends")

\* discover_active_users.py:68-72  owners of the rows of the queue scan
QueueOwners(ok) == IF ok THEN {queues[q].ownerId : q \in {x \in Queues : queues[x].exists}} ELSE {}

\* discover_active_users.py:74-78  users of the rows of the member scan
QueueMembers(ok) == IF ok THEN {m.userId : m \in members} ELSE {}

\* discover_active_users.py:81-86  both ends of every row of the friend scan
FriendEndsNone(ok) == {}

FriendEnds(ok) == IF ok THEN {e[1] : e \in friends} \cup {e[2] : e \in friends} ELSE {}

\* discover_active_users.py:65-86  active_user_ids before the filter
ActiveUserIds(fault) ==
    RecentShareable(fault) \cup QueueOwners(fault # "queues")
        \cup QueueMembers(fault # "members") \cup FriendEnds(fault # "edges")

\* discover_active_users.py:60, 88-95  whether user_map has the user: from the
\* index rows, or from the batched lookup of the ids the index did not give
InUserMap(u, fault) ==
    \/ u \in RecentShareable(fault)
    \/ u \in ActiveUserIds(fault) /\ fault # "users" /\ users[u].exists

\* discover_active_users.py:62-63
UserShareableAny(known, vis) == known

UserShareable(known, vis) == known /\ (IF vis = "unset" THEN "friends" ELSE vis) # "private"

\* discover_active_users.py:98-104  active_users
ActiveUsers(fault) ==
    LET Keep(u) == u \in ActiveUserIds(fault) /\ UserShareable(InUserMap(u, fault), visibility[u])
    IN  SelectSeq(UserOrder, Keep)

\* discover_active_users.py:115-118
MessageBodyWithToken(u) ==
    [userId |-> u, spotifyId |-> SpotifyId(u), accessToken |-> users[u].accessToken]

MessageBody(u) == [userId |-> u, spotifyId |-> SpotifyId(u)]

\* discover_active_users.py:120-129  the send_message call for one user
SendMessage(u) == [MessageBody |-> MessageBody(u), MessageAttributes |-> [userId |-> u]]

\* discover_active_users.py:109-135  the loop over active_users; `fails` are
\* the users whose send raises
RECURSIVE EnqueueStopsAtFailure(_, _)
RECURSIVE Enqueue(_, _)
EnqueueStopsAtFailure(active, fails) ==
    IF active = <<>> THEN [sent |-> <<>>, queued |-> 0, failed |-> 0]
    ELSE IF Head(active) \in fails
         THEN [sent |-> <<>>, queued |-> 0, failed |-> 1]
         ELSE LET rest == EnqueueStopsAtFailure(Tail(active), fails)
              IN  [sent |-> <<SendMessage(Head(active))>> \o rest.sent,
                   queued |-> rest.queued + 1, failed |-> rest.failed]

Enqueue(active, fails) ==
    IF active = <<>> THEN [sent |-> <<>>, queued |-> 0, failed |-> 0]
    ELSE LET rest == Enqueue(Tail(active), fails)
         IN  IF Head(active) \in fails
             THEN [rest EXCEPT !.failed = @ + 1]
             ELSE [sent |-> <<SendMessage(Head(active))>> \o rest.sent,
                   queued |-> rest.queued + 1, failed |-> rest.failed]

\* discover_active_users.py:31-155  one scheduled run (a run reads nothing
\* that an earlier run wrote, so one run is followed).  At most one read of
\* the run fails; an exception that is not a ClientError leaves the handler at
\* line 155 before the first send
Discover ==
    /\ ~disc.ran
    /\ \E fault \in DiscoverReads \cup {"none"}, kind \in FaultKinds,
          fails \in {F \in SUBSET Users : Cardinality(F) <= MaxFailures} :
        IF fault # "none" /\ kind = "other"
        THEN disc' = [NoDiscovery EXCEPT !.ran = TRUE, !.raised = TRUE,
                                         !.fault = fault, !.kind = kind]
        ELSE LET active == ActiveUsers(fault)
                 done   == Enqueue(active, fails)
             IN  disc' = [ran |-> TRUE, raised |-> FALSE, fault |-> fault,
                          kind |-> IF fault = "none" THEN "none" ELSE kind,
                          recent |-> RecentShareable(fault),
                          candidates |-> ActiveUserIds(fault),
                          active |-> active, fails |-> fails \cap Range(active),
                          sent |-> done.sent, queued |-> done.queued,
                          failed |-> done.failed]
    /\ UNCHANGED <<now, ticks, users, presence, fetchVars, raceVars, netVars,
                   queues, members, requests, calls, api>>

NextDiscover == Discover

SpecDiscover == InitDiscover /\ [][NextDiscover]_vars

\* the users a run sent a message for
Enqueued == {disc.sent[i].MessageBody.userId : i \in DOMAIN disc.sent}

\* (a) of the contract: shareable by the stored visibility, active in the window
RecentlyActive ==
    {u \in Users : /\ users[u].exists
                   /\ visibility[u] \in {"public", "friends"}
                   /\ lastLogin[u] > now - SevenDays}

\* (b) of the contract: owners and members of the queues that exist
InSession ==
    {queues[q].ownerId : q \in {x \in Queues : queues[x].exists}} \cup {m.userId : m \in members}

\* (c) of the contract: the other end of an edge that has one end in S
FriendsOfAny(S) ==
    {e[2] : e \in {f \in friends : f[1] \in S}} \cup {e[1] : e \in {f \in friends : f[2] \in S}}

\* C21: in a run whose reads all succeed, a user is enqueued only when it is in
\* (a), in (b), or has a friendship edge, in either direction, with a user of
\* (a) or (b)
C21_EnqueuedOnlyFromTheUnion ==
    (disc.ran /\ disc.fault = "none") =>
        Enqueued \subseteq (RecentlyActive \cup InSession
                               \cup FriendsOfAny(RecentlyActive \cup InSession))

\* the messages a run sent for user u
SentFor(u) == Cardinality({i \in DOMAIN disc.sent : disc.sent[i].MessageBody.userId = u})

\* the candidate union of the contract
CandidateUnion ==
    RecentlyActive \cup InSession \cup FriendsOfAny(RecentlyActive \cup InSession)

\* U1 (friends, active), U2 (private, active), U3 (friends, stale, friend of U1)
Scenario ==
    /\ \A u \in Users : users[u].exists
    /\ visibility = [u \in Users |-> IF u = "u2" THEN "private" ELSE "friends"]
    /\ lastLogin = [u \in Users |-> IF u = "u3" THEN now - SevenDays - 1 ELSE now - 1]
    /\ friends = Mutual("u1", "u3")
    /\ \A q \in Queues : ~queues[q].exists

C23_PrivateOrUnknownNeverEnqueued ==
    disc.ran =>
        \A u \in Enqueued :
            /\ visibility[u] # "private"
            /\ users[u].exists
            /\ disc.fault = "users" => u \in disc.recent

C23_Witness ==
    /\ disc.ran /\ disc.sent # <<>>
    /\ \E u \in disc.candidates \cap InSession : visibility[u] = "private" /\ u \notin Enqueued
    /\ \E u \in disc.candidates : ~users[u].exists /\ u \notin Enqueued

\* C24: a queued message has a body of exactly userId and spotifyId of its
\* user and one attribute, userId; no token and no expiry is in it
C24_MessagesCarryIdsOnly ==
    \A i \in DOMAIN disc.sent :
        LET msg == disc.sent[i] IN
        /\ DOMAIN msg.MessageBody = {"userId", "spotifyId"}
        /\ msg.MessageBody.userId \in Users
        /\ msg.MessageBody.spotifyId = SpotifyId(msg.MessageBody.userId)
        /\ DOMAIN msg.MessageAttributes = {"userId"}
        /\ msg.MessageAttributes.userId = msg.MessageBody.userId

C24_Witness ==
    /\ disc.ran
    /\ \E u \in Enqueued : users[u].accessToken # 0 /\ users[u].refreshToken # 0

\* C25: when sends fail, the run still returns normally, counts every
\* surviving candidate as queued or failed, and has sent the message of every
\* surviving candidate whose send did not fail
C25_SendFailureIsSkipped ==
    (disc.ran /\ disc.fails # {}) =>
        /\ ~disc.raised
        /\ disc.queued + disc.failed = Len(disc.active)
        /\ disc.failed = Cardinality(disc.fails)
        /\ \A u \in Range(disc.active) \ disc.fails : SentFor(u) = 1

C25_Witness ==
    /\ disc.ran /\ ~disc.raised
    /\ \E i, j \in DOMAIN disc.active :
          i < j /\ disc.active[i] \in disc.fails /\ disc.active[j] \in Enqueued

\* C26: a run in which a read of a candidate index fails (an index query, the
\* queue scan, the member scan or the friend scan) raises and sends nothing
C26_ReadFailureIsFatal ==
    (disc.ran /\ disc.fault \in {"public", "friends", "queues", "members", "edges"}) =>
        (disc.raised /\ disc.sent = <<>>)

\* ---------------------------------------------------------------------------
\* The profile handlers (src/users/update_visibility.py, src/users/get_me.py)
\* ---------------------------------------------------------------------------
\* update_visibility.py:22
ValidVisibilityValues == {"private", "friends", "public"}

\* what a request body can be: a JSON object with one of the three values,
\* with another value ("bogus"), without a value ("missing": no field, null or
\* ""), or text that is not JSON ("invalidJson")
VisibilityRequests == ValidVisibilityValues \cup {"bogus", "missing", "invalidJson"}

\* common/response_utils.py  the status codes of the response helpers
SuccessResponse     == 200
BadRequestResponse  == 400
NotFoundResponse    == 404
ServerErrorResponse == 500

\* the response of a profile handler; `before` is not in the response: it is
\* the visibility column as the handler found it
Response(op, u, req, status, vis) ==
    [op |-> op, user |-> u, request |-> req, status |-> status, visibility |-> vis,
     before |-> visibility, data |-> NoData]

\* a response with the `data` of its body
WithData(response, data) == [response EXCEPT !.data = data]

\* update_visibility.py:75-84  the outcome of update_item: the stored value
UpdateItemIgnored(u, v) == visibility

UpdateItem(u, v) == [visibility EXCEPT ![u] = v]

\* update_visibility.py:37-91  db: the table call that fails ("get": get_item
\* answers None; "update": update_item answers False or raises)
UpdateVisibility(u, req) ==
    /\ \E db \in {"ok", "get", "update"} :
        IF req \notin ValidVisibilityValues
        THEN /\ api' = Response("update_visibility", u, req, BadRequestResponse, "none")
             /\ UNCHANGED visibility
        ELSE IF db = "get" \/ ~users[u].exists
        THEN /\ api' = Response("update_visibility", u, req, NotFoundResponse, "none")
             /\ UNCHANGED visibility
        ELSE IF db = "update"
        THEN /\ api' = Response("update_visibility", u, req, ServerErrorResponse, "none")
             /\ UNCHANGED visibility
        ELSE /\ api' = Response("update_visibility", u, req, SuccessResponse, req)
             /\ visibility' = UpdateItem(u, req)
    /\ UNCHANGED <<now, ticks, users, presence, fetchVars, raceVars, friends, lastLogin,
                   conns, stream, bc, view, queues, members, requests, disc, calls>>

\* get_me.py:29-62
GetMe(u) ==
    /\ \E db \in {"ok", "get"} :
        IF db = "get" \/ ~users[u].exists
        THEN api' = Response("get_me", u, "none", NotFoundResponse, "none")
        ELSE api' = Response("get_me", u, "none", SuccessResponse,
                             IF visibility[u] = "unset" THEN "friends" ELSE visibility[u])
    /\ UNCHANGED <<now, ticks, users, presence, fetchVars, raceVars, netVars,
                   queues, members, requests, disc, calls>>

\* every user shares with friends, as after the first login; the playback of
\* one user is written, that user changes its visibility, the users read the
\* network and the stream is handled
InitPrivacy ==
    /\ InitNet
    /\ friends \in {UNION P : P \in SUBSET {Mutual("u1", "u2"), Mutual("u1", "u3")}}
    /\ visibility = [u \in Users |-> "friends"]
    /\ lastLogin = [u \in Users |-> StartTime]

NextPrivacy ==
    \/ \E data \in Tracks \cup {"none"} : PresenceWrite(RaceUser, data)
    \/ \E req \in ValidVisibilityValues : UpdateVisibility(RaceUser, req)
    \/ \E viewer \in Users : GetNetwork(viewer)
    \/ Broadcast

SpecPrivacy == InitPrivacy /\ [][NextPrivacy]_vars

\* C27: no network response lists another user as private together with the
\* playback of that user's stored record, and no broadcast of a record whose
\* user was private when it was handled sends anything
C27_PrivatePresenceIsNotShared ==
    /\ view.served =>
          \A u \in Users \ {view.viewer} :
              (view.nodes[u].listed /\ view.nodes[u].visibility = "private")
                  => ~view.nodes[u].row.exists
    /\ (bc.handled /\ bc.visibility = "private") =>
          \A u \in Users : bc.sends[u] = <<>>

\* Users rows as the profile handlers find them: u1's row may predate the
\* visibility attribute or carry any value, u3 may have no row
InitProfile ==
    /\ now = StartTime
    /\ ticks = 0
    /\ users \in {f \in [Users -> {NoRow, Row(1, 1, ValidAt)}] :
                    f["u1"].exists /\ f["u2"].exists}
    /\ presence = [u \in Users |-> NoPres]
    /\ FetchIdle
    /\ RaceIdle
    /\ friends = {}
    /\ visibility \in {v \in [Users -> Visibilities] : v["u2"] = "friends" /\ v["u3"] = "friends"}
    /\ lastLogin = [u \in Users |-> StartTime]
    /\ conns = [c \in Conns |-> "none"]
    /\ stream = <<>>
    /\ bc = NoBroadcast
    /\ view = NoView
    /\ AppIdle

NextProfile ==
    \/ \E u \in Users, req \in VisibilityRequests : UpdateVisibility(u, req)
    \/ \E u \in Users : GetMe(u)

SpecProfile == InitProfile /\ [][NextProfile]_vars

\* the visibility a profile read shows for u
Shown(u) == IF visibility[u] = "unset" THEN "friends" ELSE visibility[u]

ForbiddenResponse == 403

\* a pending request of the Friend Requests table (send_request.py:115-121)
Pending(from, to) == [exists |-> TRUE, fromUserId |-> from, toUserId |-> to, status |-> "pending"]

\* an invocation that has passed its checks and is about to write
InFlight(op, u, target) ==
    [NoCall EXCEPT !.op = op, !.pc = "txn", !.user = u, !.target = target, !.found = TRUE]

\* u1 and u2 have each sent the other a request (send_request's own check for
\* a request in the other direction is a read followed by a put); u1 and u3
\* may be friends already
InitFriends ==
    /\ now = StartTime
    /\ ticks = 0
    /\ users = [u \in Users |-> Row(1, 1, ValidAt)]
    /\ presence = [u \in Users |-> NoPres]
    /\ FetchIdle
    /\ RaceIdle
    /\ friends \in {{}, Mutual("u1", "u3")}
    /\ visibility = [u \in Users |-> "friends"]
    /\ lastLogin = [u \in Users |-> StartTime]
    /\ conns = [c \in Conns |-> "none"]
    /\ stream = <<>>
    /\ bc = NoBroadcast
    /\ view = NoView
    /\ queues = [q \in Queues |-> NoQueue]
    /\ members = {}
    /\ requests = [r \in Reqs |-> IF r = "r1" THEN Pending("u1", "u2") ELSE Pending("u2", "u1")]
    /\ disc = NoDiscovery
    /\ calls = [a \in ApiCalls |-> NoCall]
    /\ api = NoResponse

\* accept_request.py:45-78  the checks before the transaction
AcceptRequest(a, u, r) ==
    /\ calls[a].pc = "done"
    /\ \E db \in {"ok", "get"} :
        IF db = "get" \/ ~requests[r].exists
        THEN api' = Response("accept_request", u, r, NotFoundResponse, "none") /\ UNCHANGED calls
        ELSE IF requests[r].toUserId # u
        THEN api' = Response("accept_request", u, r, ForbiddenResponse, "none") /\ UNCHANGED calls
        ELSE IF requests[r].status # "pending"
        THEN api' = Response("accept_request", u, r, BadRequestResponse, "none") /\ UNCHANGED calls
        ELSE calls' = [calls EXCEPT ![a] = InFlight("accept", u, r)] /\ UNCHANGED api
    /\ UNCHANGED <<now, ticks, users, presence, fetchVars, raceVars, netVars,
                   queues, members, requests, disc>>

\* accept_request.py:87-110  the two Put items, as the table applies them
AcceptPuts(from, to) == friends \cup {<<from, to>>, <<to, from>>}

\* accept_request.py:86-153  the transaction: both rows absent and the request
\* still pending, or nothing is written
AcceptTransact(a) ==
    /\ calls[a].op = "accept" /\ calls[a].pc = "txn"
    /\ LET r    == calls[a].target
           from == requests[r].fromUserId
           to   == requests[r].toUserId
       IN \E db \in {"ok", "error"} :
           IF db = "error"
           THEN /\ api' = Response("accept_request", to, r, ServerErrorResponse, "none")
                /\ UNCHANGED <<friends, requests>>
           ELSE IF /\ <<from, to>> \notin friends
                   /\ <<to, from>> \notin friends
                   /\ requests[r].status = "pending"
           THEN /\ friends' = AcceptPuts(from, to)
                /\ requests' = [requests EXCEPT ![r].status = "accepted"]
                /\ api' = Response("accept_request", to, r, SuccessResponse, "none")
           ELSE /\ api' = Response("accept_request", to, r, BadRequestResponse, "none")
                /\ UNCHANGED <<friends, requests>>
    /\ calls' = [calls EXCEPT ![a] = NoCall]
    /\ UNCHANGED <<now, ticks, users, presence, fetchVars, raceVars, visibility, lastLogin,
                   conns, stream, bc, view, queues, members, disc>>

\* delete_friend.py:38-54  the check before the transaction
DeleteFriend(a, u, f) ==
    /\ calls[a].pc = "done"
    /\ \E db \in {"ok", "get"} :
        IF db = "get" \/ <<u, f>> \notin friends
        THEN api' = Response("delete_friend", u, f, NotFoundResponse, "none") /\ UNCHANGED calls
        ELSE calls' = [calls EXCEPT ![a] = InFlight("delete", u, f)] /\ UNCHANGED api
    /\ UNCHANGED <<now, ticks, users, presence, fetchVars, raceVars, netVars,
                   queues, members, requests, disc>>

\* delete_friend.py:58-81  the two Delete items, as the table applies them
DeleteItemsOneSided(u, f) == friends \ {<<u, f>>}

DeleteItems(u, f) == friends \ {<<u, f>>, <<f, u>>}

\* delete_friend.py:56-92  the transaction: both rows present, or nothing is
\* deleted
DeleteTransact(a) ==
    /\ calls[a].op = "delete" /\ calls[a].pc = "txn"
    /\ LET u == calls[a].user
           f == calls[a].target
       IN \E db \in {"ok", "error"} :
           IF db = "error"
           THEN /\ api' = Response("delete_friend", u, f, ServerErrorResponse, "none")
                /\ UNCHANGED friends
           ELSE IF <<u, f>> \in friends /\ <<f, u>> \in friends
           THEN /\ friends' = DeleteItems(u, f)
                /\ api' = Response("delete_friend", u, f, SuccessResponse, "none")
           ELSE /\ api' = Response("delete_friend", u, f, NotFoundResponse, "none")
                /\ UNCHANGED friends
    /\ calls' = [calls EXCEPT ![a] = NoCall]
    /\ UNCHANGED <<now, ticks, users, presence, fetchVars, raceVars, visibility, lastLogin,
                   conns, stream, bc, view, queues, members, requests, disc>>

NextFriends ==
    \/ \E a \in ApiCalls, u \in Users, r \in Reqs : AcceptRequest(a, u, r)
    \/ \E a \in ApiCalls : AcceptTransact(a)
    \/ \E a \in ApiCalls, u \in Users : \E f \in Users \ {u} : DeleteFriend(a, u, f)
    \/ \E a \in ApiCalls : DeleteTransact(a)

SpecFriends == InitFriends /\ [][NextFriends]_vars

\* C28: under every interleaving of accepts and deletes the Friends table has
\* the row (A,B) exactly when it has the row (B,A)
C28_EdgesComeInPairs ==
    \A u \in Users, f \in Users : <<u, f>> \in friends <=> <<f, u>> \in friends

\* one of two accepts between the same pair has committed while the other,
\* past its checks, has not yet run its transaction
C28_Witness ==
    /\ api.op = "accept_request" /\ api.status = SuccessResponse
    /\ \E b \in ApiCalls :
          /\ calls[b].op = "accept" /\ calls[b].pc = "txn"
          /\ calls[b].target # api.request
    /\ Mutual("u1", "u2") \subseteq friends

\* ---------------------------------------------------------------------------
\* Queue membership (src/queues/join_queue.py, src/queues/create_queue.py)
\* ---------------------------------------------------------------------------
CreatedResponse == 201

\* create_queue.py:67
MaxNameLength == 100

\* lengths of the `name` of a create request; 0 is a request without a name
NameLengths == {0, MaxNameLength, MaxNameLength + 1}

\* the memberIds of a create request: lists of user ids, repeats allowed
RECURSIVE SeqsUpTo(_, _)
SeqsUpTo(S, n) ==
    IF n = 0 THEN {<<>>}
    ELSE LET shorter == SeqsUpTo(S, n - 1)
         IN  shorter \cup {Append(s, x) : s \in {t \in shorter : Len(t) = n - 1}, x \in S}

\* u1 owns the public queue q1 (create_queue writes the owner's member row
\* with the queue); u2 and u3 are friends; nobody else is in a queue
InitQueues ==
    /\ now = StartTime
    /\ ticks = 0
    /\ users = [u \in Users |-> Row(1, 1, ValidAt)]
    /\ presence = [u \in Users |-> NoPres]
    /\ FetchIdle
    /\ RaceIdle
    /\ friends = Mutual("u2", "u3")
    /\ visibility = [u \in Users |-> "friends"]
    /\ lastLogin = [u \in Users |-> StartTime]
    /\ conns = [c \in Conns |-> "none"]
    /\ stream = <<>>
    /\ bc = NoBroadcast
    /\ view = NoView
    /\ queues = [q \in Queues |-> IF q = "q1" THEN Queue("u1", TRUE) ELSE NoQueue]
    /\ members = {MemberRow("q1", "u1", "owner")}
    /\ requests = [r \in Reqs |-> NoRequest]
    /\ disc = NoDiscovery
    /\ calls = [a \in ApiCalls |-> NoCall]
    /\ api = NoResponse

\* the rows of the Queue Members table with key (q, u)
RowsOf(q, u) == {m \in members : m.queueId = q /\ m.userId = u}

\* put_item on the Queue Members table: the row replaces the one of its key
PutMember(rows, q, u, role) ==
    {m \in rows : ~(m.queueId = q /\ m.userId = u)} \cup {MemberRow(q, u, role)}

\* join_queue.py:59-64, create_queue.py:93-100  the query of UserQueuesIndex
UserHasActiveQueue(u) == \E m \in members : m.userId = u

\* join_queue.py:108-120
AreFriends(a, b) == <<a, b>> \in friends \/ <<b, a>> \in friends

\* the data of a join response; `wasMember` is not in the response: it tells
\* whether the caller had a member row of this queue when the request came
JoinData(q, u, role) == [role |-> role, wasMember |-> RowsOf(q, u) # {}]

\* join_queue.py:33-73  the checks before the put
JoinQueue(a, u, q) ==
    /\ calls[a].pc = "done"
    /\ IF ~queues[q].exists
       THEN /\ api' = WithData(Response("join_queue", u, q, NotFoundResponse, "none"),
                               JoinData(q, u, "none"))
            /\ UNCHANGED calls
       ELSE IF queues[q].ownerId = u
       THEN /\ api' = WithData(Response("join_queue", u, q, SuccessResponse, "none"),
                               JoinData(q, u, "owner"))
            /\ UNCHANGED calls
       ELSE IF UserHasActiveQueue(u)
       THEN /\ api' = WithData(Response("join_queue", u, q, BadRequestResponse, "none"),
                               JoinData(q, u, "none"))
            /\ UNCHANGED calls
       ELSE IF RowsOf(q, u) # {}
       THEN /\ api' = WithData(Response("join_queue", u, q, SuccessResponse, "none"),
                               JoinData(q, u, (CHOOSE m \in RowsOf(q, u) : TRUE).role))
            /\ UNCHANGED calls
       ELSE IF ~queues[q].isPublic /\ ~AreFriends(queues[q].ownerId, u)
       THEN /\ api' = WithData(Response("join_queue", u, q, ForbiddenResponse, "none"),
                               JoinData(q, u, "none"))
            /\ UNCHANGED calls
       ELSE calls' = [calls EXCEPT ![a] = InFlight("join", u, q)] /\ UNCHANGED api
    /\ UNCHANGED <<now, ticks, users, presence, fetchVars, raceVars, netVars,
                   queues, members, requests, disc>>

\* join_queue.py:75-98  the put of the member row, which has no condition
JoinPut(a) ==
    /\ calls[a].op = "join" /\ calls[a].pc = "txn"
    /\ \E db \in {"ok", "error"} :
        IF db = "error"
        THEN /\ api' = WithData(Response("join_queue", calls[a].user, calls[a].target,
                                         ServerErrorResponse, "none"),
                                JoinData(calls[a].target, calls[a].user, "none"))
             /\ UNCHANGED members
        ELSE /\ members' = PutMember(members, calls[a].target, calls[a].user, "member")
             /\ api' = WithData(Response("join_queue", calls[a].user, calls[a].target,
                                         SuccessResponse, "none"),
                                JoinData(calls[a].target, calls[a].user, "member"))
    /\ calls' = [calls EXCEPT ![a] = NoCall]
    /\ UNCHANGED <<now, ticks, users, presence, fetchVars, raceVars, netVars,
                   queues, requests, disc>>

\* create_queue.py:71-90  member_ids: repeats and the owner removed
MemberIdsKeepOwner(owner, memberIds) == Range(memberIds)

MemberIds(owner, memberIds) == Range(memberIds) \ {owner}

\* create_queue.py:63-112  why the request is rejected, or "ok"; usersOk: the
\* batched lookup of the invited users answered
CreateChecksNameOnly(owner, name, memberIds, usersOk) ==
    IF name = 0 THEN "name" ELSE IF name > MaxNameLength THEN "long" ELSE "ok"

CreateChecks(owner, name, memberIds, usersOk) ==
    LET ids == MemberIds(owner, memberIds) IN
    IF name = 0 THEN "name"
    ELSE IF name > MaxNameLength THEN "long"
    ELSE IF ids # {} /\ (~usersOk \/ \E u \in ids : ~users[u].exists) THEN "users"
    ELSE IF \E u \in {owner} \cup ids : UserHasActiveQueue(u) THEN "conflict"
    ELSE "ok"

\* the data of a create response: the error and the ids of "Users not found",
\* or the new queue's id and memberCount; `memberIds` is not in the response:
\* it is the list the request gave
CreateData(error, missing, q, count, memberIds) ==
    [error |-> error, missing |-> missing, queueId |-> q, memberCount |-> count,
     memberIds |-> memberIds]

\* create_queue.py:46-112  the checks before the transaction
CreateQueue(a, owner, name, memberIds) ==
    /\ calls[a].pc = "done"
    /\ \E usersOk \in BOOLEAN :
        LET error == CreateChecks(owner, name, memberIds, usersOk)
            ids   == MemberIds(owner, memberIds)
        IN  IF error # "ok"
            THEN /\ api' = WithData(Response("create_queue", owner, "none",
                                             BadRequestResponse, "none"),
                                    CreateData(error,
                                               IF error = "users"
                                               THEN {u \in ids : ~usersOk \/ ~users[u].exists}
                                               ELSE {},
                                               "none", 0, <<>>))
                 /\ UNCHANGED calls
            ELSE /\ calls' = [calls EXCEPT ![a] =
                                [InFlight("create", owner, "none") EXCEPT !.name = name,
                                                                          !.memberIds = memberIds,
                                                                          !.invited = ids]]
                 /\ UNCHANGED api
    /\ UNCHANGED <<now, ticks, users, presence, fetchVars, raceVars, netVars,
                   queues, members, requests, disc>>

\* create_queue.py:146-173  the member rows of the transaction
CreateItems(q, owner, ids) ==
    {MemberRow(q, owner, "owner")} \cup {MemberRow(q, u, "member") : u \in ids \ {owner}}

\* create_queue.py:114-196  the transaction: the queue row under a new id, the
\* owner's member row and the invited users', none with a condition
CreateTransact(a) ==
    /\ calls[a].op = "create" /\ calls[a].pc = "txn"
    /\ \E q \in Queues, isPublic \in BOOLEAN, db \in {"ok", "error"} :
        /\ ~queues[q].used
        /\ LET owner == calls[a].user
               ids   == calls[a].invited
           IN IF db = "error"
              THEN /\ api' = WithData(Response("create_queue", owner, "none",
                                               ServerErrorResponse, "none"),
                                      CreateData("error", {}, "none", 0, <<>>))
                   /\ UNCHANGED <<queues, members>>
              ELSE /\ queues' = [queues EXCEPT ![q] = Queue(owner, isPublic)]
                   /\ members' = {m \in members : m.queueId # q} \cup CreateItems(q, owner, ids)
                   /\ api' = WithData(Response("create_queue", owner, "none",
                                               CreatedResponse, "none"),
                                      CreateData("none", {}, q, Cardinality(ids) + 1,
                                                 calls[a].memberIds))
    /\ calls' = [calls EXCEPT ![a] = NoCall]
    /\ UNCHANGED <<now, ticks, users, presence, fetchVars, raceVars, netVars,
                   requests, disc>>

NextQueues ==
    \/ \E a \in ApiCalls, u \in Users, q \in Queues : JoinQueue(a, u, q)
    \/ \E a \in ApiCalls : JoinPut(a)
    \/ \E a \in ApiCalls, owner \in Users, memberIds \in SeqsUpTo(Users, 1) :
            CreateQueue(a, owner, MaxNameLength, memberIds)
    \/ \E a \in ApiCalls : CreateTransact(a)

SpecQueues == InitQueues /\ [][NextQueues]_vars

\* one caller at a time creates queues, with any name and list of memberIds;
\* u3 may have no Users row, and callers have one (spotify_auth writes it at
\* login)
InitCreate ==
    /\ now = StartTime
    /\ ticks = 0
    /\ users \in {f \in [Users -> {NoRow, Row(1, 1, ValidAt)}] :
                    f["u1"].exists /\ f["u2"].exists}
    /\ presence = [u \in Users |-> NoPres]
    /\ FetchIdle
    /\ RaceIdle
    /\ friends = {}
    /\ visibility = [u \in Users |-> "friends"]
    /\ lastLogin = [u \in Users |-> StartTime]
    /\ conns = [c \in Conns |-> "none"]
    /\ stream = <<>>
    /\ bc = NoBroadcast
    /\ view = NoView
    /\ queues = [q \in Queues |-> IF q = "q1" THEN Queue("u1", TRUE) ELSE NoQueue]
    /\ members = {MemberRow("q1", "u1", "owner")}
    /\ requests = [r \in Reqs |-> NoRequest]
    /\ disc = NoDiscovery
    /\ calls = [a \in ApiCalls |-> NoCall]
    /\ api = NoResponse

NextCreate ==
    \/ \E owner \in {u \in Users : users[u].exists}, name \in NameLengths,
          memberIds \in SeqsUpTo(Users, MaxInvited) : CreateQueue("a1", owner, name, memberIds)
    \/ CreateTransact("a1")

SpecCreate == InitCreate /\ [][NextCreate]_vars

\* the queues in which u has a member row
QueuesOf(u) == {q \in Queues : RowsOf(q, u) # {}}

\* C29: under every interleaving of creates and joins no user has member rows
\* in two queues
C29_OneQueuePerUser ==
    \A u \in Users : Cardinality(QueuesOf(u)) <= 1


MembersOf(q) == {m \in members : m.queueId = q}

\* C32: when create-queue answers 201, the queue row of the returned id exists
\* with the caller as owner, the member rows of that queue are the owner's
\* with role 'owner' and one with role 'member' for each distinct invited user
\* other than the owner, and memberCount is 1 + the number of those users,
\* which is the number of member rows of the queue
C32_CreatedQueueAndRows ==
    (api.op = "create_queue" /\ api.status = CreatedResponse) =>
        LET q       == api.data.queueId
            invited == Range(api.data.memberIds) \ {api.user}
        IN  /\ q \in Queues
            /\ queues[q].exists /\ queues[q].ownerId = api.user
            /\ MembersOf(q) = {MemberRow(q, api.user, "owner")}
                                \cup {MemberRow(q, u, "member") : u \in invited}
            /\ api.data.memberCount = 1 + Cardinality(invited)
            /\ api.data.memberCount = Cardinality(MembersOf(q))

\* a create-queue whose memberIds name the owner and another user succeeded
C32_Witness ==
    /\ api.op = "create_queue" /\ api.status = CreatedResponse
    /\ api.user \in Range(api.data.memberIds)
    /\ Range(api.data.memberIds) \ {api.user} # {}

\* C39: a join request by a user who already has a non-owner member row of
\* that queue is answered 200 with the role of that row
C39_JoinAgainIsIdempotent ==
    (api.op = "join_queue" /\ api.data.wasMember /\ api.status # NotFoundResponse
        /\ queues[api.request].ownerId # api.user) =>
            /\ api.status = SuccessResponse
            /\ \A m \in RowsOf(api.request, api.user) : api.data.role = m.role

\* ---------------------------------------------------------------------------
\* Queue lifecycle (src/queues/delete_queue.py, src/queues/leave_queue.py)
\* ---------------------------------------------------------------------------
\* delete_item on the Queues table; the id is never drawn again
DeletedQueue == [NoQueue EXCEPT !.used = TRUE]

\* delete_queue.py:49-59  the checks and the delete of the queue row
DeleteQueue(a, u, q) ==
    /\ calls[a].pc = "done"
    /\ IF ~queues[q].exists
       THEN /\ api' = Response("delete_queue", u, q, NotFoundResponse, "none")
            /\ UNCHANGED <<calls, queues>>
       ELSE IF queues[q].ownerId # u
       THEN /\ api' = Response("delete_queue", u, q, ForbiddenResponse, "none")
            /\ UNCHANGED <<calls, queues>>
       ELSE /\ queues' = [queues EXCEPT ![q] = DeletedQueue]
            /\ calls' = [calls EXCEPT ![a] = InFlight("delete", u, q)]
            /\ UNCHANGED api
    /\ UNCHANGED <<now, ticks, users, presence, fetchVars, raceVars, netVars,
                   members, requests, disc>>

\* delete_queue.py:67-77  the member rows the query returns, deleted one by one
DeleteMemberRows(q) == {m \in members : m.queueId # q}

\* delete_queue.py:67-81  the query of the member rows, their deletes, the answer
DeleteMembers(a) ==
    /\ calls[a].op = "delete" /\ calls[a].pc = "txn"
    /\ members' = DeleteMemberRows(calls[a].target)
    /\ api' = Response("delete_queue", calls[a].user, calls[a].target, SuccessResponse, "none")
    /\ calls' = [calls EXCEPT ![a] = NoCall]
    /\ UNCHANGED <<now, ticks, users, presence, fetchVars, raceVars, netVars,
                   queues, requests, disc>>

\* leave_queue.py:49-63  the checks and the delete of the caller's member row
LeaveQueue(a, u, q) ==
    /\ calls[a].pc = "done"
    /\ IF ~queues[q].exists
       THEN /\ api' = Response("leave_queue", u, q, NotFoundResponse, "none")
            /\ UNCHANGED <<calls, members>>
       ELSE IF queues[q].ownerId = u
       THEN /\ api' = Response("leave_queue", u, q, BadRequestResponse, "none")
            /\ UNCHANGED <<calls, members>>
       ELSE /\ members' = members \ RowsOf(q, u)
            /\ calls' = [calls EXCEPT ![a] = InFlight("leave", u, q)]
            /\ UNCHANGED api
    /\ UNCHANGED <<now, ticks, users, presence, fetchVars, raceVars, netVars,
                   queues, requests, disc>>

\* leave_queue.py:65-79  the query of the remaining member rows; with none
\* left the queue row is deleted
LeaveClose(a) ==
    /\ calls[a].op = "leave" /\ calls[a].pc = "txn"
    /\ queues' = IF \E m \in members : m.queueId = calls[a].target
                 THEN queues
                 ELSE [queues EXCEPT ![calls[a].target] = DeletedQueue]
    /\ api' = Response("leave_queue", calls[a].user, calls[a].target, SuccessResponse, "none")
    /\ calls' = [calls EXCEPT ![a] = NoCall]
    /\ UNCHANGED <<now, ticks, users, presence, fetchVars, raceVars, netVars,
                   members, requests, disc>>

\* two concurrent callers create, join, leave and delete queues
NextLifecycle ==
    \/ \E a \in ApiCalls, u \in Users, q \in Queues : JoinQueue(a, u, q)
    \/ \E a \in ApiCalls : JoinPut(a)
    \/ \E a \in ApiCalls, owner \in Users : CreateQueue(a, owner, MaxNameLength, <<>>)
    \/ \E a \in ApiCalls : CreateTransact(a)
    \/ \E a \in ApiCalls, u \in Users, q \in Queues : DeleteQueue(a, u, q)
    \/ \E a \in ApiCalls : DeleteMembers(a)
    \/ \E a \in ApiCalls, u \in Users, q \in Queues : LeaveQueue(a, u, q)
    \/ \E a \in ApiCalls : LeaveClose(a)

SpecLifecycle == InitQueues /\ [][NextLifecycle]_vars

\* C37: whenever no create, join, leave or delete is in flight, every member
\* row is of a queue whose row exists
C37_NoOrphanMemberRows ==
    (\A a \in ApiCalls : calls[a].pc = "done") =>
        \A m \in members : queues[m.queueId].exists

\* ---------------------------------------------------------------------------
\* Queue tracks (src/queues/add_to_queue.py, src/queues/auto_dj.py)
\* ---------------------------------------------------------------------------
\* the trackId of an add request ("none": the request has no trackId)
TrackIds == {"x", "y", "none"}

\* the track AutoDJ picks from the owner's top tracks
DjTrack == "dj"

\* u1 owns the queue q1, public or private, with no tracks yet; u2 is a member
InitTracks ==
    /\ now = StartTime
    /\ ticks = 0
    /\ users = [u \in Users |-> Row(1, 1, ValidAt)]
    /\ presence = [u \in Users |-> NoPres]
    /\ FetchIdle
    /\ RaceIdle
    /\ friends = {}
    /\ visibility = [u \in Users |-> "friends"]
    /\ lastLogin = [u \in Users |-> StartTime]
    /\ conns = [c \in Conns |-> "none"]
    /\ stream = <<>>
    /\ bc = NoBroadcast
    /\ view = NoView
    /\ \E isPublic \in BOOLEAN :
        queues = [q \in Queues |-> IF q = "q1" THEN Queue("u1", isPublic) ELSE NoQueue]
    /\ members = {MemberRow("q1", "u1", "owner"), MemberRow("q1", "u2", "member")}
    /\ requests = [r \in Reqs |-> NoRequest]
    /\ disc = NoDiscovery
    /\ calls = [a \in ApiCalls |-> NoCall]
    /\ api = NoResponse

\* what a finished add-to-queue call leaves in its slot: the track and
\* whether the call was answered 200
Added(u, q, t, ok) ==
    [NoCall EXCEPT !.op = "add", !.user = u, !.target = q, !.track = t, !.found = ok]

\* add_to_queue.py:72-108  the checks, the read of the queue row and the
\* append of the track to the list that was read
AddToQueue(a, u, q, t) ==
    /\ calls[a].pc = "done"
    /\ Len(queues[q].tracks) < MaxTracks
    /\ IF t = "none"
       THEN /\ api' = Response("add_to_queue", u, q, BadRequestResponse, "none")
            /\ calls' = [calls EXCEPT ![a] = Added(u, q, t, FALSE)]
       ELSE IF ~queues[q].exists
       THEN /\ api' = Response("add_to_queue", u, q, NotFoundResponse, "none")
            /\ calls' = [calls EXCEPT ![a] = Added(u, q, t, FALSE)]
       ELSE IF RowsOf(q, u) = {} /\ ~queues[q].isPublic
       THEN /\ api' = Response("add_to_queue", u, q, ForbiddenResponse, "none")
            /\ calls' = [calls EXCEPT ![a] = Added(u, q, t, FALSE)]
       ELSE /\ calls' = [calls EXCEPT ![a] =
                            [InFlight("add", u, q) EXCEPT
                                !.track = t, !.tracks = Append(queues[q].tracks, t)]]
            /\ UNCHANGED api
    /\ UNCHANGED <<now, ticks, users, presence, fetchVars, raceVars, netVars,
                   queues, members, requests, disc>>

\* add_to_queue.py:115-123  the update: SET tracks = :tracks, with the list
\* the handler built from its read
UpdateTracks(q, tracks, t) == tracks

\* add_to_queue.py:110-139  the update of the queue row and the answer
AddWrite(a) ==
    /\ calls[a].op = "add" /\ calls[a].pc = "txn"
    /\ queues' = [queues EXCEPT ![calls[a].target].tracks =
                        UpdateTracks(calls[a].target, calls[a].tracks, calls[a].track)]
    /\ api' = WithData(Response("add_to_queue", calls[a].user, calls[a].target,
                                SuccessResponse, "none"),
                       [tracks |-> queues'[calls[a].target].tracks])
    /\ calls' = [calls EXCEPT ![a] = Added(calls[a].user, calls[a].target, calls[a].track, TRUE)]
    /\ UNCHANGED <<now, ticks, users, presence, fetchVars, raceVars, netVars,
                   members, requests, disc>>

\* auto_dj.py:25-49  a stream record of a queue row whose tracks list is empty
AutoDj(a, q) ==
    /\ calls[a].pc = "done"
    /\ queues[q].exists /\ queues[q].tracks = <<>>
    /\ calls' = [calls EXCEPT ![a] = InFlight("autodj", "AutoDJ", q)]
    /\ UNCHANGED <<now, ticks, users, presence, fetchVars, raceVars, netVars,
                   queues, members, requests, disc, api>>

\* auto_dj.py:57-142  refill_queue: with the owner's token and a top track,
\* list_append of one track to the list as it is now; otherwise nothing
RefillQueue(a) ==
    /\ calls[a].op = "autodj" /\ calls[a].pc = "txn"
    /\ \E ok \in BOOLEAN :
        queues' = IF ok /\ queues[calls[a].target].exists
                       /\ Len(queues[calls[a].target].tracks) < MaxTracks
                  THEN [queues EXCEPT ![calls[a].target].tracks = Append(@, DjTrack)]
                  ELSE queues
    /\ calls' = [calls EXCEPT ![a] = NoCall]
    /\ UNCHANGED <<now, ticks, users, presence, fetchVars, raceVars, netVars,
                   members, requests, disc, api>>

NextTracks ==
    \/ \E a \in ApiCalls, u \in Users, t \in TrackIds : AddToQueue(a, u, "q1", t)
    \/ \E a \in ApiCalls : AddWrite(a)
    \/ \E a \in ApiCalls : AutoDj(a, "q1")
    \/ \E a \in ApiCalls : RefillQueue(a)

SpecTracks == InitTracks /\ [][NextTracks]_vars

\* C38: the track of every add-to-queue call that was answered 200 is in the
\* track list of its queue
C38_NoSuccessfulAddIsLost ==
    \A a \in ApiCalls :
        (calls[a].op = "add" /\ calls[a].pc = "done" /\ calls[a].found) =>
            calls[a].track \in Range(queues[calls[a].target].tracks)

\* ---------------------------------------------------------------------------
\* Connection registry (src/websocket/connect.py, disconnect.py, default.py)
\* ---------------------------------------------------------------------------
UnauthorizedResponse == 401

\* connect.py:59  8 * 60 * 60
EightHours == 28800

\* jwt_utils.py:12,31  TOKEN_EXPIRY_HOURS * 3600
TokenExpiry == 604800

\* the `token` query parameter of a connect event: none, or a token with a
\* good or bad signature, an `exp` in the past or in the future, and a userId
\* claim ("" when the payload has none)
NoToken == [supplied |-> FALSE, signed |-> FALSE, exp |-> 0, userId |-> ""]
Tokens ==
    {NoToken} \cup [supplied : {TRUE}, signed : BOOLEAN,
                    exp : {StartTime - 1, StartTime + TokenExpiry}, userId : {"u1", "u2", ""}]

\* jwt_utils.py:37-57  the payload, or None for a bad signature or a token
\* past its `exp`
NoPayload == [valid |-> FALSE, userId |-> ""]
DecodeTokenIgnoringExp(token) ==
    IF token.signed THEN [valid |-> TRUE, userId |-> token.userId] ELSE NoPayload

DecodeToken(token) ==
    IF token.signed /\ token.exp > now THEN [valid |-> TRUE, userId |-> token.userId]
    ELSE NoPayload

\* connect.py:58-66  the item of the Connections table
NoConnectionItem == [connectionId |-> "none", userId |-> "none", connectedAt |-> 0, ttl |-> 0]
ConnectionItem(c, u, timestamp) ==
    [connectionId |-> c, userId |-> u, connectedAt |-> timestamp, ttl |-> timestamp + EightHours]

\* the data of a connect response; neither field is in the response: `token`
\* is the one the event carried, `item` the one that was put
ConnectData(token, item) == [token |-> token, item |-> item]

\* connect.py:21-78  (connection ids are the gateway's: an id in the registry
\* is not handed to a new connection)
Connect(c, token) ==
    /\ conns[c] = "none"
    /\ \E db \in {"ok", "error"} :
        LET payload == DecodeToken(token)
            item    == ConnectionItem(c, payload.userId, now)
        IN  IF ~token.supplied \/ ~payload.valid \/ payload.userId = ""
            THEN /\ api' = WithData(Response("connect", "none", c, UnauthorizedResponse, "none"),
                                    ConnectData(token, NoConnectionItem))
                 /\ UNCHANGED conns
            ELSE IF db = "error"
            THEN /\ api' = WithData(Response("connect", "none", c, ServerErrorResponse, "none"),
                                    ConnectData(token, NoConnectionItem))
                 /\ UNCHANGED conns
            ELSE /\ conns' = [conns EXCEPT ![c] = item.userId]
                 /\ api' = WithData(Response("connect", "none", c, SuccessResponse, "none"),
                                    ConnectData(token, item))
    /\ UNCHANGED <<now, ticks, users, presence, fetchVars, raceVars, friends, visibility,
                   lastLogin, stream, bc, view, queues, members, requests, disc, calls>>

\* disconnect.py:19-42  (`deleted` is not in the response: it tells whether
\* delete_item went through)
Disconnect(c) ==
    /\ \E db \in {"ok", "error"} :
        /\ conns' = IF db = "ok" THEN [conns EXCEPT ![c] = "none"] ELSE conns
        /\ api' = WithData(Response("disconnect", "none", c, SuccessResponse, "none"),
                           [deleted |-> db = "ok"])
    /\ UNCHANGED <<now, ticks, users, presence, fetchVars, raceVars, friends, visibility,
                   lastLogin, stream, bc, view, queues, members, requests, disc, calls>>

\* the `action` of a message on the default route ("badjson": the body is not
\* JSON)
Actions == {"ping", "subscribe", "unsubscribe", "other", "badjson"}

\* the data of a default-route response: the connection, and the `action` of
\* the body of the response
DefaultData(c, action) == [connectionId |-> c, action |-> action]

\* default.py:20-99  no branch writes to a table
Default(c, action) ==
    /\ \E db \in {"ok", "error"} :
        api' =
          IF action = "badjson"
          THEN WithData(Response("default", "none", action, BadRequestResponse, "none"),
                        DefaultData(c, "none"))
          ELSE IF db = "error" \/ conns[c] = "none"
          THEN WithData(Response("default", "none", action, NotFoundResponse, "none"),
                        DefaultData(c, "none"))
          ELSE IF action = "ping"
          THEN WithData(Response("default", conns[c], action, SuccessResponse, "none"),
                        DefaultData(c, "pong"))
          ELSE IF action = "subscribe"
          THEN WithData(Response("default", conns[c], action, SuccessResponse, "none"),
                        DefaultData(c, "subscribed"))
          ELSE IF action = "unsubscribe"
          THEN WithData(Response("default", conns[c], action, SuccessResponse, "none"),
                        DefaultData(c, "unsubscribed"))
          ELSE WithData(Response("default", conns[c], action, BadRequestResponse, "none"),
                        DefaultData(c, "none"))
    /\ UNCHANGED <<now, ticks, users, presence, fetchVars, raceVars, netVars,
                   queues, members, requests, disc, calls>>

\* c1 is a connection of u1; no other connection is open
InitRegistry ==
    /\ now = StartTime
    /\ ticks = 0
    /\ users = [u \in Users |-> Row(1, 1, ValidAt + MaxTicks)]
    /\ presence = [u \in Users |-> NoPres]
    /\ FetchIdle
    /\ RaceIdle
    /\ friends = {}
    /\ visibility = [u \in Users |-> "friends"]
    /\ lastLogin = [u \in Users |-> StartTime]
    /\ conns = [c \in Conns |-> IF c = "c1" THEN "u1" ELSE "none"]
    /\ stream = <<>>
    /\ bc = NoBroadcast
    /\ view = NoView
    /\ AppIdle

NextRegistry ==
    \/ \E c \in Conns, token \in Tokens : Connect(c, token)
    \/ \E c \in Conns : Disconnect(c)

SpecRegistry == InitRegistry /\ [][NextRegistry]_vars

\* u1 shares with friends and u3 is in its audience; c1 is a connection of u1,
\* c2 and c3 are connections of u3; the Users row of u1 has a lastLogin or not
InitSubscribe ==
    /\ InitNet
    /\ friends = {<<"u1", "u3">>}
    /\ visibility = [u \in Users |-> "friends"]

\* connections send messages while presence of u1 changes and is broadcast
NextSubscribe ==
    \/ \E c \in Conns, action \in Actions : Default(c, action)
    \/ \E data \in Tracks \cup {"none"} : PresenceWrite(RaceUser, data)
    \/ Broadcast

SpecSubscribe == InitSubscribe /\ [][NextSubscribe]_vars

\* the token of a connect response is supplied, well signed, unexpired and
\* carries a userId
GoodToken(token) ==
    token.supplied /\ token.signed /\ token.exp > now /\ token.userId # ""

C34_UnsubscribedGetsNoUpdate ==
    [][ (api.op = "default" /\ api.data.action = "unsubscribed" /\ bc' # bc) =>
            api.data.connectionId \notin Sent(bc'.sends, {"ok"})
      ]_vars

\* ---------------------------------------------------------------------------
\* Polling and visibility (src/presence/fetch_presence.py,
\* src/users/update_visibility.py)
\* ---------------------------------------------------------------------------
\* the work item of u1 is in the queue, as the Discovery Service put it there:
\* u1 has tokens and shares with friends
InitPolling ==
    /\ now = StartTime
    /\ ticks = 0
    /\ users = [u \in Users |-> Row(1, 1, ValidAt)]
    /\ presence = [u \in Users |-> NoPres]
    /\ issued = [u \in Users |-> 1]
    /\ qstate = [m \in Msgs |-> IF msgUser[m] = RaceUser THEN "visible" ELSE "deleted"]
    /\ rcv = [m \in Msgs |-> 0]
    /\ invocations = 0
    /\ pc = [w \in Workers |-> "idle"]
    /\ batch = [w \in Workers |-> <<>>]
    /\ idx = [w \in Workers |-> 0]
    /\ loc = [w \in Workers |-> NoLoc]
    /\ ev = [w \in Workers |-> <<>>]
    /\ hist = [w \in Workers |-> <<>>]
    /\ rateLimited = {}
    /\ RaceIdle
    /\ friends = {}
    /\ visibility = [u \in Users |-> "friends"]
    /\ lastLogin = [u \in Users |-> StartTime]
    /\ conns = [c \in Conns |-> "none"]
    /\ stream = <<>>
    /\ bc = NoBroadcast
    /\ view = NoView
    /\ AppIdle

\* the fetcher works through the queue; at some point u1 asks, once, to be
\* private
NextPolling ==
    \/ Next
    \/ api = NoResponse /\ UpdateVisibility(RaceUser, "private")

SpecPolling == InitPolling /\ [][NextPolling]_vars

\* the positions of the handler whose step is a call to the provider: the
\* token refresh and the currently-playing request, first and retried
ProviderCalls == {"refresh", "fetch", "refresh401", "retry"}

\* C36: no step writes the Presence row of a user whose visibility is private,
\* and no worker calls the provider for a work item of such a user
C36_PrivateUsersAreNotPolled ==
    [][ /\ \A u \in Users : visibility[u] = "private" => presence'[u] = presence[u]
        /\ \A w \in Workers :
              (pc[w] \in ProviderCalls /\ pc'[w] # pc[w]) =>
                  visibility[CurUser(w)] # "private"
      ]_vars
====
